---- MODULE Spec2Model ----
(***************************************************************************)
(* Kanban board (trello-app): the board store of hooks/use-board.ts and   *)
(* the drag handlers of the Board component (components/board/Board.tsx). *)
(*                                                                         *)
(* A board is [id, title, lists]; a list is [id, title, cards]; a card is  *)
(* [id, title, comments]; a comment is [id, text, author].  The createdAt  *)
(* stamps (new Date().toISOString()) are values of the environment that no *)
(* operation reads; they are left out of the records.  JavaScript arrays   *)
(* are sequences; JavaScript indices are 0-based, so array index i is      *)
(* position i + 1 of the sequence.                                         *)
(***************************************************************************)
EXTENDS Integers, Sequences, FiniteSets, TLC

(***************************************************************************)
(* Bounds of the model.                                                    *)
(***************************************************************************)
\* index arguments of moveCard / moveList are drawn from -MinIndex..MaxIndex
MaxIndex == 3
MinIndex == 1
\* changes of the board (by an edit or by a move of a drag) in one run of the
\* Board component
MaxChanges == 2
\* the top edge of the dragged rectangle is unknown or one of 1..MaxTop
MaxTop == 2
MaxRepeats == 2
MaxRanked == 2

Min(a, b) == IF a < b THEN a ELSE b
Max(a, b) == IF a > b THEN a ELSE b

\* null / undefined of an id-valued variable or argument
Null == "null"
\* the value an array holds where `undefined` was inserted
Undefined == [undefined |-> TRUE]

(***************************************************************************)
(* JavaScript array primitives.                                            *)
(***************************************************************************)
\* Array.prototype.splice: the actual start for a relative start index
RelativeStart(start, len) ==
  IF start < 0 THEN Max(len + start, 0) ELSE Min(start, len)

\* Array.prototype.splice(start, deleteCount): the removed elements
SpliceRemoved(a, start, deleteCount) ==
  LET s == RelativeStart(start, Len(a))
      n == Min(Max(deleteCount, 0), Len(a) - s)
  IN  SubSeq(a, s + 1, s + n)

\* Array.prototype.splice(start, deleteCount): the array left behind
SpliceDelete(a, start, deleteCount) ==
  LET s == RelativeStart(start, Len(a))
      n == Min(Max(deleteCount, 0), Len(a) - s)
  IN  SubSeq(a, 1, s) \o SubSeq(a, s + n + 1, Len(a))

\* Array.prototype.splice(start, 0, item): the array with item inserted
SpliceInsert(a, start, item) ==
  LET s == RelativeStart(start, Len(a))
  IN  SubSeq(a, 1, s) \o <<item>> \o SubSeq(a, s + 1, Len(a))

\* Array.prototype.findIndex on the id field: 0-based, -1 when absent
FindIndexById(a, id) ==
  IF \E i \in 1..Len(a) : a[i].id = id
  THEN (CHOOSE i \in 1..Len(a) :
          a[i].id = id /\ \A j \in 1..(i - 1) : a[j].id # id) - 1
  ELSE -1

\* Array.prototype.some on the id field
SomeById(a, id) == \E i \in 1..Len(a) : a[i].id = id

\* Array.prototype.filter((x) => x.id !== id)
FilterOutId(a, id) == SelectSeq(a, LAMBDA x : x.id # id)

\* Array.prototype.map((x) => x.id)
Ids(a) == [i \in 1..Len(a) |-> a[i].id]

(***************************************************************************)
(* types/board.ts: DEFAULT_BOARD                                           *)
(***************************************************************************)
NewCard(id, title) == [id |-> id, title |-> title, comments |-> <<>>]
NewList(id, title) == [id |-> id, title |-> title, cards |-> <<>>]
NewComment(id, text) == [id |-> id, text |-> text, author |-> "User"]

DEFAULT_BOARD ==
  [id |-> "board-1",
   title |-> "Demo Board",
   lists |-> <<
     [id |-> "list-1", title |-> "Todo",
      cards |-> << NewCard("card-1", "Create interview Kanban"),
                   NewCard("card-2", "Review Drag & Drop") >>],
     [id |-> "list-2", title |-> "In Progress",
      cards |-> << NewCard("card-3", "Set up Next.js project") >>],
     [id |-> "list-3", title |-> "Done", cards |-> <<>>] >>]

(***************************************************************************)
(* utils/id.ts: generateId.  uuidv4() is an external supplier of ids that  *)
(* are unique for the lifetime of the process; the n-th uuid is "u<n>".    *)
(***************************************************************************)
uuidv4(n) == "u" \o ToString(n)

\* (mutant) the ids are numbered per kind, as the ids of the default board are
generateIdNumbered(prefix, n) == prefix \o "-" \o ToString(n)

\* (mutant) the uuid is drawn once, not once per call
generateIdOnce(prefix, n) ==
  IF prefix # "" THEN prefix \o "-" \o uuidv4(1) ELSE uuidv4(1)

generateId(prefix, n) ==
  IF prefix # "" THEN prefix \o "-" \o uuidv4(n) ELSE uuidv4(n)

(***************************************************************************)
(* hooks/use-board.ts: the updater functions handed to setBoard.  Each     *)
(* takes the previous board `prev` and returns the next board.             *)
(***************************************************************************)
updateBoardTitle(prev, title) == [prev EXCEPT !.title = title]

addList(prev, newId, title) ==
  [prev EXCEPT !.lists = Append(prev.lists, NewList(newId, title))]

deleteList(prev, listId) ==
  [prev EXCEPT !.lists = FilterOutId(prev.lists, listId)]

updateListTitle(prev, listId, title) ==
  [prev EXCEPT !.lists =
     [i \in 1..Len(prev.lists) |->
        IF prev.lists[i].id = listId
        THEN [prev.lists[i] EXCEPT !.title = title]
        ELSE prev.lists[i]]]

\* const [moved] = newLists.splice(fromIndex, 1)
MovedList(lists, fromIndex) ==
  LET removed == SpliceRemoved(lists, fromIndex, 1)
  IN  IF Len(removed) > 0 THEN removed[1] ELSE Undefined

\* (mutant) the target index is taken as an index of the array before the
\* removal, and shifted down when the list moves to the right
moveListShifted(prev, fromIndex, toIndex) ==
  LET moved    == MovedList(prev.lists, fromIndex)
      shorter  == SpliceDelete(prev.lists, fromIndex, 1)
      newLists == SpliceInsert(shorter,
                               IF toIndex > fromIndex THEN toIndex - 1 ELSE toIndex,
                               moved)
  IN  [prev EXCEPT !.lists = newLists]

moveList(prev, fromIndex, toIndex) ==
  LET moved    == MovedList(prev.lists, fromIndex)
      shorter  == SpliceDelete(prev.lists, fromIndex, 1)
      newLists == SpliceInsert(shorter, toIndex, moved)
  IN  [prev EXCEPT !.lists = newLists]

\* (mutant) the new card is put at the front of the list
addCardFirst(prev, listId, newId, title) ==
  [prev EXCEPT !.lists =
     [i \in 1..Len(prev.lists) |->
        IF prev.lists[i].id = listId
        THEN [prev.lists[i] EXCEPT
                !.cards = <<NewCard(newId, title)>> \o prev.lists[i].cards]
        ELSE prev.lists[i]]]

addCard(prev, listId, newId, title) ==
  [prev EXCEPT !.lists =
     [i \in 1..Len(prev.lists) |->
        IF prev.lists[i].id = listId
        THEN [prev.lists[i] EXCEPT
                !.cards = Append(prev.lists[i].cards, NewCard(newId, title))]
        ELSE prev.lists[i]]]

\* (mutant) the card is removed from whichever list holds it
deleteCardAnyList(prev, listId, cardId) ==
  [prev EXCEPT !.lists =
     [i \in 1..Len(prev.lists) |->
        [prev.lists[i] EXCEPT
           !.cards = FilterOutId(prev.lists[i].cards, cardId)]]]

deleteCard(prev, listId, cardId) ==
  [prev EXCEPT !.lists =
     [i \in 1..Len(prev.lists) |->
        IF prev.lists[i].id = listId
        THEN [prev.lists[i] EXCEPT
                !.cards = FilterOutId(prev.lists[i].cards, cardId)]
        ELSE prev.lists[i]]]

updateCardTitle(prev, listId, cardId, title) ==
  [prev EXCEPT !.lists =
     [i \in 1..Len(prev.lists) |->
        IF prev.lists[i].id = listId
        THEN [prev.lists[i] EXCEPT
                !.cards = [k \in 1..Len(prev.lists[i].cards) |->
                             IF prev.lists[i].cards[k].id = cardId
                             THEN [prev.lists[i].cards[k] EXCEPT !.title = title]
                             ELSE prev.lists[i].cards[k]]]
        ELSE prev.lists[i]]]

addComment(prev, listId, cardId, newId, text) ==
  [prev EXCEPT !.lists =
     [i \in 1..Len(prev.lists) |->
        IF prev.lists[i].id = listId
        THEN [prev.lists[i] EXCEPT
                !.cards = [k \in 1..Len(prev.lists[i].cards) |->
                             IF prev.lists[i].cards[k].id = cardId
                             THEN [prev.lists[i].cards[k] EXCEPT
                                     !.comments = Append(@, NewComment(newId, text))]
                             ELSE prev.lists[i].cards[k]]]
        ELSE prev.lists[i]]]

\* (mutant) clamps to the last index instead of the length
clampedDestLastIndex(destIndex, destLength) == Min(destIndex, destLength - 1)

\* const clampedDest = Math.min(destIndex, destList.cards.length)
clampedDest(destIndex, destLength) == Min(destIndex, destLength)

\* (mutant) the negative half of the range check is missing
SourceIndexAboveRange(sourceIndex, sourceLength) == sourceIndex >= sourceLength

\* sourceIndex < 0 || sourceIndex >= sourceList.cards.length
SourceIndexOutOfRange(sourceIndex, sourceLength) ==
  sourceIndex < 0 \/ sourceIndex >= sourceLength

\* (mutant) the card is inserted into the destination but the source array
\* is left as it was
MoveCardFoundNoRemoval(prev, s, d, sourceIndex, destIndex) ==
  LET newLists    == prev.lists
      removed     == SpliceRemoved(newLists[s].cards, sourceIndex, 1)
      destCards   == newLists[d].cards
      afterInsert == SpliceInsert(destCards,
                                  Min(destIndex, Len(destCards)), removed[1])
  IN  IF Len(removed) = 0 THEN prev
      ELSE [prev EXCEPT !.lists =
              [i \in 1..Len(newLists) |->
                 IF i = d THEN [newLists[i] EXCEPT !.cards = afterInsert]
                 ELSE newLists[i]]]

\* the body of moveCard's updater once both lists are found and the source
\* index is accepted: s and d are the positions of the source and destination
\* lists in newLists
MoveCardFound(prev, s, d, sourceIndex, destIndex) ==
  LET newLists    == prev.lists
      sourceCards == newLists[s].cards
      removed     == SpliceRemoved(sourceCards, sourceIndex, 1)
      afterRemove == SpliceDelete(sourceCards, sourceIndex, 1)
      \* sourceList and destList are the same object when s = d, so the
      \* destination array is the one the card was just removed from
      destCards   == IF s = d THEN afterRemove ELSE newLists[d].cards
      afterInsert == SpliceInsert(destCards,
                                  clampedDest(destIndex, Len(destCards)),
                                  removed[1])
  IN  IF Len(removed) = 0 THEN prev    \* if (!movedCard) return prev
      ELSE [prev EXCEPT !.lists =
              [i \in 1..Len(newLists) |->
                 IF i = d THEN [newLists[i] EXCEPT !.cards = afterInsert]
                 ELSE IF i = s THEN [newLists[i] EXCEPT !.cards = afterRemove]
                 ELSE newLists[i]]]

moveCard(prev, sourceListId, destListId, sourceIndex, destIndex) ==
  LET s == FindIndexById(prev.lists, sourceListId) + 1
      d == FindIndexById(prev.lists, destListId) + 1
  IN  IF s = 0 \/ d = 0 THEN prev
      ELSE IF SourceIndexOutOfRange(sourceIndex, Len(prev.lists[s].cards))
           THEN prev
           ELSE MoveCardFound(prev, s, d, sourceIndex, destIndex)

\* getCard(listId, cardId): the card, or Undefined
getCard(b, listId, cardId) ==
  LET l == FindIndexById(b.lists, listId) + 1
  IN  IF l = 0 THEN Undefined
      ELSE LET c == FindIndexById(b.lists[l].cards, cardId) + 1
           IN  IF c = 0 THEN Undefined ELSE b.lists[l].cards[c]

(***************************************************************************)
(* State.                                                                  *)
(***************************************************************************)
VARIABLES
  board,        \* useBoard: the board state (what setBoard's updater gets as prev)
  view,         \* the board of the last render, which the handlers' closures read
  activeId,     \* Board: useState activeId
  activeType,   \* Board: useState activeType
  lastOverId,   \* Board: useRef lastOverId
  recentlyMovedToNewContainer,  \* Board: useRef
  uuids,        \* number of ids uuidv4 has handed out
  changes,      \* number of times the board has changed
  op,           \* history: the last operation or event, with its arguments
  before        \* history: the board state right before the last operation

vars == <<board, view, activeId, activeType, lastOverId,
          recentlyMovedToNewContainer, uuids, changes, op, before>>

dragVars == <<activeId, activeType, lastOverId, recentlyMovedToNewContainer>>

\* (mutant) the handlers keep the board.lists of the first render
RenderStale == view' = view

\* React renders the component again after an event handler has run and the
\* queued updater has been applied: the closures then see the new board
Render == view' = board'

\* setBoard(updater) followed by the render; o is the history record
SetBoard(next, o) ==
  /\ before' = board
  /\ board' = next
  /\ op' = o
  /\ Render

(***************************************************************************)
(* The store on its own: one call of one operation of useBoard, with       *)
(* arbitrary arguments, on a board the store can hold.                     *)
(***************************************************************************)
IndexArgs == (0 - MinIndex)..MaxIndex
Titles == {"Renamed"}
Texts == {"hi"}

DefaultLists == DEFAULT_BOARD.lists
DefaultCards ==
  UNION {{DefaultLists[i].cards[k] : k \in 1..Len(DefaultLists[i].cards)} :
           i \in 1..Len(DefaultLists)}
ListIdArgs == {DefaultLists[i].id : i \in 1..Len(DefaultLists)}
CardIdArgs == {c.id : c \in DefaultCards}

Injective(f) == \A x, y \in DOMAIN f : x # y => f[x] # f[y]

\* every board made of some of the default lists, in any order, holding some
\* of the default cards, in any arrangement: each is the default board after
\* some moveList, deleteList, moveCard and deleteCard calls
InputBoards ==
  LET nl == Len(DefaultLists)
      nc == Cardinality(DefaultCards)
      orders == UNION {{s \in [1..n -> 1..nl] : Injective(s)} : n \in 0..nl}
      perms  == {p \in [1..nc -> DefaultCards] : Injective(p)}
  IN  { [DEFAULT_BOARD EXCEPT !.lists =
           [i \in 1..Len(o) |->
              [DefaultLists[o[i]] EXCEPT
                 !.cards = SelectSeq(p, LAMBDA c : place[c.id] = i)]]] :
        o \in orders, p \in perms, place \in UNION {[CardIdArgs -> 0..n] : n \in 0..nl} }

StoreInit ==
  /\ board \in InputBoards
  /\ view = board
  /\ activeId = Null
  /\ activeType = Null
  /\ lastOverId = Null
  /\ recentlyMovedToNewContainer = FALSE
  /\ uuids = 0
  /\ changes = 0
  /\ op = [name |-> "init"]
  /\ before = board

\* one call: the store is called once on the input board
StoreCall(next, o) ==
  /\ op.name = "init"
  /\ SetBoard(next, o)
  /\ UNCHANGED <<dragVars, changes>>

CallUpdateBoardTitle ==
  \E title \in Titles :
    /\ StoreCall(updateBoardTitle(board, title),
                 [name |-> "updateBoardTitle", title |-> title])
    /\ UNCHANGED uuids

CallAddList ==
  \E title \in Titles :
    /\ StoreCall(addList(board, generateId("list", uuids + 1), title),
                 [name |-> "addList", title |-> title,
                  newId |-> generateId("list", uuids + 1)])
    /\ uuids' = uuids + 1

CallDeleteList ==
  \E listId \in ListIdArgs :
    /\ StoreCall(deleteList(board, listId),
                 [name |-> "deleteList", listId |-> listId])
    /\ UNCHANGED uuids

CallUpdateListTitle ==
  \E listId \in ListIdArgs, title \in Titles :
    /\ StoreCall(updateListTitle(board, listId, title),
                 [name |-> "updateListTitle", listId |-> listId, title |-> title])
    /\ UNCHANGED uuids

CallMoveList ==
  \E fromIndex \in IndexArgs, toIndex \in IndexArgs :
    /\ StoreCall(moveList(board, fromIndex, toIndex),
                 [name |-> "moveList", fromIndex |-> fromIndex, toIndex |-> toIndex])
    /\ UNCHANGED uuids

CallAddCard ==
  \E listId \in ListIdArgs, title \in Titles :
    /\ StoreCall(addCard(board, listId, generateId("card", uuids + 1), title),
                 [name |-> "addCard", listId |-> listId, title |-> title,
                  newId |-> generateId("card", uuids + 1)])
    /\ uuids' = uuids + 1

CallDeleteCard ==
  \E listId \in ListIdArgs, cardId \in CardIdArgs :
    /\ StoreCall(deleteCard(board, listId, cardId),
                 [name |-> "deleteCard", listId |-> listId, cardId |-> cardId])
    /\ UNCHANGED uuids

CallUpdateCardTitle ==
  \E listId \in ListIdArgs, cardId \in CardIdArgs, title \in Titles :
    /\ StoreCall(updateCardTitle(board, listId, cardId, title),
                 [name |-> "updateCardTitle", listId |-> listId,
                  cardId |-> cardId, title |-> title])
    /\ UNCHANGED uuids

CallMoveCard ==
  \E sourceListId \in ListIdArgs, destListId \in ListIdArgs,
     sourceIndex \in IndexArgs, destIndex \in IndexArgs :
    /\ StoreCall(moveCard(board, sourceListId, destListId, sourceIndex, destIndex),
                 [name |-> "moveCard",
                  sourceListId |-> sourceListId, destListId |-> destListId,
                  sourceIndex |-> sourceIndex, destIndex |-> destIndex])
    /\ UNCHANGED uuids

CallAddComment ==
  \E listId \in ListIdArgs, cardId \in CardIdArgs, text \in Texts :
    /\ StoreCall(addComment(board, listId, cardId,
                            generateId("comment", uuids + 1), text),
                 [name |-> "addComment", listId |-> listId, cardId |-> cardId,
                  text |-> text, newId |-> generateId("comment", uuids + 1)])
    /\ uuids' = uuids + 1

StoreNext ==
  \/ CallUpdateBoardTitle
  \/ CallAddList
  \/ CallDeleteList
  \/ CallUpdateListTitle
  \/ CallMoveList
  \/ CallAddCard
  \/ CallDeleteCard
  \/ CallUpdateCardTitle
  \/ CallMoveCard
  \/ CallAddComment

StoreSpec == StoreInit /\ [][StoreNext]_vars

(***************************************************************************)
(* components/board/Board.tsx: the Board component.                        *)
(***************************************************************************)
\* listIds = board.lists.map((list) => list.id)
listIds(lists) == {lists[i].id : i \in 1..Len(lists)}

\* (mutant) the test for a list id is missing
findContainerCardsOnly(lists, id) ==
  IF \E i \in 1..Len(lists) : SomeById(lists[i].cards, id)
  THEN lists[CHOOSE i \in 1..Len(lists) :
               /\ SomeById(lists[i].cards, id)
               /\ \A j \in 1..(i - 1) : ~SomeById(lists[j].cards, id)].id
  ELSE Null

\* (mutant) an id that is not found falls back to the first list
findContainerFirstList(lists, id) ==
  IF SomeById(lists, id) THEN id
  ELSE IF \E i \in 1..Len(lists) : SomeById(lists[i].cards, id)
       THEN lists[CHOOSE i \in 1..Len(lists) :
                    /\ SomeById(lists[i].cards, id)
                    /\ \A j \in 1..(i - 1) : ~SomeById(lists[j].cards, id)].id
       ELSE IF Len(lists) > 0 THEN lists[1].id ELSE Null

\* (mutant) the card scan runs before the list test and returns the id itself
findContainerSelf(lists, id) ==
  IF \E i \in 1..Len(lists) : SomeById(lists[i].cards, id) THEN id
  ELSE IF SomeById(lists, id) THEN id
  ELSE Null

\* findContainer(id): the list id itself, else the first list holding a card
\* with that id, else undefined
findContainer(lists, id) ==
  IF SomeById(lists, id) THEN id
  ELSE IF \E i \in 1..Len(lists) : SomeById(lists[i].cards, id)
       THEN lists[CHOOSE i \in 1..Len(lists) :
                    /\ SomeById(lists[i].cards, id)
                    /\ \A j \in 1..(i - 1) : ~SomeById(lists[j].cards, id)].id
       ELSE Null

\* the items the rendered board registers with the drag library: a list is a
\* sortable of type 'list' and a droppable, a card is a sortable of type 'card'
Draggables(lists) ==
  {[id |-> lists[i].id, type |-> "list"] : i \in 1..Len(lists)} \cup
  UNION {{[id |-> lists[i].cards[k].id, type |-> "card"] :
            k \in 1..Len(lists[i].cards)} : i \in 1..Len(lists)}
Droppables(lists) == {a.id : a \in Draggables(lists)}

\* geometry of an event: the dragged rectangle (active.rect.current.translated,
\* possibly null) and the rectangle of the item under it (over.rect)
NoRect == [measured |-> FALSE]
Translateds == {NoRect} \cup {[top |-> t] : t \in 1..MaxTop}
OverRects == {[top |-> 0, height |-> 2]}

\* (mutant) the comparison is the wrong way round
isAboveOverItem(translated, overRect) ==
  /\ translated # NoRect
  /\ 2 * translated.top < 2 * overRect.top + overRect.height

\* isBelowOverItem = over && translated && translated.top > over.rect.top +
\* over.rect.height / 2   (both sides doubled)
isBelowOverItem(translated, overRect) ==
  /\ translated # NoRect
  /\ 2 * translated.top > 2 * overRect.top + overRect.height

\* (mutant) a drop on the list itself inserts at the front
newIndexFront(lists, destList, overId, translated, overRect) ==
  LET overIndex == FindIndexById(destList.cards, overId)
      modifier  == IF isBelowOverItem(translated, overRect) THEN 1 ELSE 0
  IN  IF overId \in listIds(lists) THEN 0
      ELSE IF overIndex >= 0 THEN overIndex + modifier
           ELSE Len(destList.cards)

\* handleDragOver: the destination index
newIndex(lists, destList, overId, translated, overRect) ==
  LET overIndex == FindIndexById(destList.cards, overId)
      modifier  == IF isBelowOverItem(translated, overRect) THEN 1 ELSE 0
  IN  IF overId \in listIds(lists) THEN Len(destList.cards)
      ELSE IF overIndex >= 0 THEN overIndex + modifier
           ELSE Len(destList.cards)

NoCall == [call |-> "none"]

\* (mutant) the test that both ids resolve to the same container is missing
DragOverCallAnyContainer(lists, aType, active, overId, translated, overRect) ==
  IF overId = Null THEN NoCall
  ELSE IF aType # "card" THEN NoCall
  ELSE LET activeContainer == findContainer(lists, active.id)
           overContainer   == findContainer(lists, overId)
       IN  IF activeContainer = Null \/ overContainer = Null THEN NoCall
           ELSE IF \/ FindIndexById(lists, activeContainer) = -1
                   \/ FindIndexById(lists, overContainer) = -1 THEN NoCall
           ELSE LET sourceList  == lists[FindIndexById(lists, activeContainer) + 1]
                    destList    == lists[FindIndexById(lists, overContainer) + 1]
                    activeIndex == FindIndexById(sourceList.cards, active.id)
                IN  IF activeIndex = -1 THEN NoCall
                    ELSE [call |-> "moveCard",
                          sourceListId |-> activeContainer,
                          destListId |-> overContainer,
                          sourceIndex |-> activeIndex,
                          destIndex |-> newIndex(lists, destList, overId,
                                                 translated, overRect)]

\* (mutant) the kind is read from the event's item, not from activeType
DragOverCallEventKind(lists, aType, active, overId, translated, overRect) ==
  IF overId = Null THEN NoCall
  ELSE IF active.type # "card" THEN NoCall
  ELSE LET activeContainer == findContainer(lists, active.id)
           overContainer   == findContainer(lists, overId)
       IN  IF activeContainer = Null \/ overContainer = Null THEN NoCall
           ELSE IF activeContainer = overContainer THEN NoCall
           \* if (!sourceList || !destList) return
           ELSE IF \/ FindIndexById(lists, activeContainer) = -1
                   \/ FindIndexById(lists, overContainer) = -1 THEN NoCall
           ELSE LET sourceList  == lists[FindIndexById(lists, activeContainer) + 1]
                    destList    == lists[FindIndexById(lists, overContainer) + 1]
                    activeIndex == FindIndexById(sourceList.cards, active.id)
                IN  IF activeIndex = -1 THEN NoCall
                    ELSE [call |-> "moveCard",
                          sourceListId |-> activeContainer,
                          destListId |-> overContainer,
                          sourceIndex |-> activeIndex,
                          destIndex |-> newIndex(lists, destList, overId,
                                                 translated, overRect)]

\* handleDragOver up to its call of moveCard: the call it makes, if any.
\* lists and aType are the board.lists and activeType of the closure.
DragOverCall(lists, aType, active, overId, translated, overRect) ==
  IF overId = Null THEN NoCall
  ELSE IF aType # "card" THEN NoCall
  ELSE LET activeContainer == findContainer(lists, active.id)
           overContainer   == findContainer(lists, overId)
       IN  IF activeContainer = Null \/ overContainer = Null THEN NoCall
           ELSE IF activeContainer = overContainer THEN NoCall
           \* if (!sourceList || !destList) return
           ELSE IF \/ FindIndexById(lists, activeContainer) = -1
                   \/ FindIndexById(lists, overContainer) = -1 THEN NoCall
           ELSE LET sourceList  == lists[FindIndexById(lists, activeContainer) + 1]
                    destList    == lists[FindIndexById(lists, overContainer) + 1]
                    activeIndex == FindIndexById(sourceList.cards, active.id)
                IN  IF activeIndex = -1 THEN NoCall
                    ELSE [call |-> "moveCard",
                          sourceListId |-> activeContainer,
                          destListId |-> overContainer,
                          sourceIndex |-> activeIndex,
                          destIndex |-> newIndex(lists, destList, overId,
                                                 translated, overRect)]

\* (mutant) a list is moved although the over item is not a list
DragEndCallAnyOver(lists, active, overId) ==
  IF overId = Null THEN NoCall
  ELSE IF active.type = "list" THEN
    IF active.id # overId
    THEN LET fromIndex == FindIndexById(lists, active.id)
             toIndex   == FindIndexById(lists, overId)
         IN  IF fromIndex # -1
             THEN [call |-> "moveList", fromIndex |-> fromIndex, toIndex |-> toIndex]
             ELSE NoCall
    ELSE NoCall
  ELSE IF active.type = "card" THEN
    LET activeContainer == findContainer(lists, active.id)
        overContainer   == findContainer(lists, overId)
    IN  IF activeContainer = Null \/ overContainer = Null THEN NoCall
        ELSE IF activeContainer = overContainer
        THEN IF FindIndexById(lists, activeContainer) = -1 THEN NoCall
             ELSE
             LET list        == lists[FindIndexById(lists, activeContainer) + 1]
                 activeIndex == FindIndexById(list.cards, active.id)
                 overIndex   == FindIndexById(list.cards, overId)
             IN  IF activeIndex # -1 /\ overIndex # -1 /\ activeIndex # overIndex
                 THEN [call |-> "moveCard",
                       sourceListId |-> activeContainer,
                       destListId |-> activeContainer,
                       sourceIndex |-> activeIndex,
                       destIndex |-> overIndex]
                 ELSE NoCall
        ELSE NoCall
  ELSE NoCall

\* (mutant) a drop on an item of another list moves the card there
DragEndCallAcross(lists, active, overId) ==
  IF overId = Null THEN NoCall
  ELSE IF active.type = "list" THEN
    IF active.id # overId
    THEN LET fromIndex == FindIndexById(lists, active.id)
             toIndex   == FindIndexById(lists, overId)
         IN  IF fromIndex # -1 /\ toIndex # -1
             THEN [call |-> "moveList", fromIndex |-> fromIndex, toIndex |-> toIndex]
             ELSE NoCall
    ELSE NoCall
  ELSE IF active.type = "card" THEN
    LET activeContainer == findContainer(lists, active.id)
        overContainer   == findContainer(lists, overId)
    IN  IF activeContainer = Null \/ overContainer = Null THEN NoCall
        ELSE IF FindIndexById(lists, activeContainer) = -1 THEN NoCall
        ELSE
          LET list        == lists[FindIndexById(lists, activeContainer) + 1]
              dest        == lists[FindIndexById(lists, overContainer) + 1]
              activeIndex == FindIndexById(list.cards, active.id)
              overIndex   == FindIndexById(dest.cards, overId)
          IN  IF activeContainer = overContainer
              THEN IF activeIndex # -1 /\ overIndex # -1 /\ activeIndex # overIndex
                   THEN [call |-> "moveCard",
                         sourceListId |-> activeContainer,
                         destListId |-> activeContainer,
                         sourceIndex |-> activeIndex,
                         destIndex |-> overIndex]
                   ELSE NoCall
              ELSE IF activeIndex # -1
                   THEN [call |-> "moveCard",
                         sourceListId |-> activeContainer,
                         destListId |-> overContainer,
                         sourceIndex |-> activeIndex,
                         destIndex |-> IF overIndex # -1 THEN overIndex
                                       ELSE Len(dest.cards)]
                   ELSE NoCall
  ELSE NoCall

\* handleDragEnd after the reset of the session: the call it makes, if any
DragEndCall(lists, active, overId) ==
  IF overId = Null THEN NoCall
  ELSE IF active.type = "list" THEN
    IF active.id # overId
    THEN LET fromIndex == FindIndexById(lists, active.id)
             toIndex   == FindIndexById(lists, overId)
         IN  IF fromIndex # -1 /\ toIndex # -1
             THEN [call |-> "moveList", fromIndex |-> fromIndex, toIndex |-> toIndex]
             ELSE NoCall
    ELSE NoCall
  ELSE IF active.type = "card" THEN
    LET activeContainer == findContainer(lists, active.id)
        overContainer   == findContainer(lists, overId)
    IN  IF activeContainer = Null \/ overContainer = Null THEN NoCall
        ELSE IF activeContainer = overContainer
        THEN IF FindIndexById(lists, activeContainer) = -1 THEN NoCall  \* if (!list) return
             ELSE
             LET list        == lists[FindIndexById(lists, activeContainer) + 1]
                 activeIndex == FindIndexById(list.cards, active.id)
                 overIndex   == FindIndexById(list.cards, overId)
             IN  IF activeIndex # -1 /\ overIndex # -1 /\ activeIndex # overIndex
                 THEN [call |-> "moveCard",
                       sourceListId |-> activeContainer,
                       destListId |-> activeContainer,
                       sourceIndex |-> activeIndex,
                       destIndex |-> overIndex]
                 ELSE NoCall
        ELSE NoCall
  ELSE NoCall

\* the store call a handler makes, applied by setBoard to the store's board
ApplyCall(prev, c) ==
  IF c.call = "moveCard"
  THEN moveCard(prev, c.sourceListId, c.destListId, c.sourceIndex, c.destIndex)
  ELSE IF c.call = "moveList" THEN moveList(prev, c.fromIndex, c.toIndex)
  ELSE prev

(***************************************************************************)
(* collisionDetectionStrategy, the collision detection of the DndContext.  *)
(* Its argument carries the registered droppables and the geometry; the    *)
(* library's detection algorithms are taken by their outcome on it:        *)
(* args.pointer and args.rects are the collisions pointerWithin and        *)
(* rectIntersection report, best first, and args.centers ranks the         *)
(* measured droppables by the distance of their centre, nearest first.     *)
(***************************************************************************)
pointerWithin(args) == args.pointer
rectIntersection(args) == args.rects

\* closestCenter({...args, droppableContainers}): the given containers that
\* are measured, nearest first
closestCenter(args, droppableContainers) ==
  SelectSeq(args.centers, LAMBDA id : id \in droppableContainers)

\* getFirstCollision(collisions, 'id')
getFirstCollision(collisions) ==
  IF Len(collisions) = 0 THEN Null ELSE collisions[1]

\* (mutant) the candidates of a list drag are not filtered
ListContainersAll(lists, droppableContainers) == droppableContainers

\* args.droppableContainers.filter((container) => listIds.includes(container.id))
ListContainers(lists, droppableContainers) ==
  {id \in droppableContainers : id \in listIds(lists)}

\* (mutant) the first collision is returned without being remembered
RememberedOverKept(last, overId) == last

\* lastOverId.current = overId
RememberedOver(last, overId) == overId

\* (mutant) the flag is not read: the previous target is always kept
LastKnownOverKept(aId, last, moved) == last

\* if (recentlyMovedToNewContainer.current) lastOverId.current = activeId
LastKnownOver(aId, last, moved) == IF moved THEN aId ELSE last

\* (mutant) the nearest droppable is taken, not the nearest card of the list
collisionDetectionStrategyAnyCard(lists, aType, aId, last, moved, args) ==
  IF aType = "list"
  THEN [collisions |-> closestCenter(args,
                         ListContainers(lists, args.droppableContainers)),
        lastOverId |-> last]
  ELSE
    LET pointerCollisions == pointerWithin(args)
        collisions == IF Len(pointerCollisions) > 0 THEN pointerCollisions
                      ELSE rectIntersection(args)
        first == getFirstCollision(collisions)
    IN  IF first # Null
        THEN LET list == lists[FindIndexById(lists, first) + 1]
                 cardIds ==
                   IF first \in listIds(lists)
                   THEN {list.cards[k].id : k \in 1..Len(list.cards)}
                   ELSE {}
                 closestCard ==
                   closestCenter(args, args.droppableContainers)
                 overId == IF cardIds # {} /\ Len(closestCard) > 0
                           THEN closestCard[1] ELSE first
             IN  [collisions |-> <<overId>>,
                  lastOverId |-> RememberedOver(last, overId)]
        ELSE LET known == LastKnownOver(aId, last, moved)
             IN  [collisions |-> IF known # Null THEN <<known>> ELSE <<>>,
                  lastOverId |-> known]

\* the strategy called with the closure's board.lists, activeType and
\* activeId and the two refs: the collisions it returns and the value it
\* leaves in lastOverId.current
collisionDetectionStrategy(lists, aType, aId, last, moved, args) ==
  IF aType = "list"
  THEN [collisions |-> closestCenter(args,
                         ListContainers(lists, args.droppableContainers)),
        lastOverId |-> last]
  ELSE
    LET pointerCollisions == pointerWithin(args)
        collisions == IF Len(pointerCollisions) > 0 THEN pointerCollisions
                      ELSE rectIntersection(args)
        first == getFirstCollision(collisions)
    IN  IF first # Null
        THEN LET list == lists[FindIndexById(lists, first) + 1]
                 cardIds ==
                   IF first \in listIds(lists)
                   THEN {list.cards[k].id : k \in 1..Len(list.cards)}
                   ELSE {}
                 closestCard ==
                   closestCenter(args, {id \in args.droppableContainers :
                                          id \in cardIds})
                 overId == IF cardIds # {} /\ Len(closestCard) > 0
                           THEN closestCard[1] ELSE first
             IN  [collisions |-> <<overId>>,
                  lastOverId |-> RememberedOver(last, overId)]
        ELSE LET known == LastKnownOver(aId, last, moved)
             IN  [collisions |-> IF known # Null THEN <<known>> ELSE <<>>,
                  lastOverId |-> known]

handleDragStart(active) ==
  /\ activeType' = active.type
  /\ activeId' = active.id
  /\ UNCHANGED <<board, lastOverId, recentlyMovedToNewContainer, uuids>>
  /\ Render

handleDragOver(active, overId, translated, overRect) ==
  LET c == DragOverCall(view.lists, activeType, active, overId, translated, overRect)
  IN  /\ recentlyMovedToNewContainer' =
           IF c.call = "moveCard" THEN TRUE ELSE recentlyMovedToNewContainer
      /\ board' = ApplyCall(board, c)
      /\ UNCHANGED <<activeId, activeType, lastOverId, uuids>>
      /\ Render

\* (mutant) the return for a missing over target comes before the reset
handleDragEndReturnFirst(active, overId) ==
  IF overId = Null
  THEN /\ UNCHANGED <<activeId, activeType, recentlyMovedToNewContainer>>
       /\ UNCHANGED <<board, lastOverId, uuids>>
       /\ Render
  ELSE /\ activeId' = Null
       /\ activeType' = Null
       /\ recentlyMovedToNewContainer' = FALSE
       /\ board' = ApplyCall(board, DragEndCall(view.lists, active, overId))
       /\ UNCHANGED <<lastOverId, uuids>>
       /\ Render

handleDragEnd(active, overId) ==
  /\ activeId' = Null
  /\ activeType' = Null
  /\ recentlyMovedToNewContainer' = FALSE
  /\ board' = ApplyCall(board, DragEndCall(view.lists, active, overId))
  /\ UNCHANGED <<lastOverId, uuids>>
  /\ Render

\* (mutant) the flag is left as it is
handleDragCancelKeepsFlag ==
  /\ activeId' = Null
  /\ activeType' = Null
  /\ UNCHANGED <<board, lastOverId, recentlyMovedToNewContainer, uuids>>
  /\ Render

\* (mutant) the cancelled drag puts the initial board back
handleDragCancelRollback ==
  /\ activeId' = Null
  /\ activeType' = Null
  /\ recentlyMovedToNewContainer' = FALSE
  /\ board' = DEFAULT_BOARD
  /\ UNCHANGED <<lastOverId, uuids>>
  /\ Render

handleDragCancel ==
  /\ activeId' = Null
  /\ activeType' = Null
  /\ recentlyMovedToNewContainer' = FALSE
  /\ UNCHANGED <<board, lastOverId, uuids>>
  /\ Render

(***************************************************************************)
(* The events the drag library delivers.  It starts a drag of a rendered   *)
(* item when none is in progress, and until the drag ends or is cancelled  *)
(* every event carries that item as `active`; `over` is null or a          *)
(* droppable of the rendered board.                                        *)
(***************************************************************************)
Dragging == activeId # Null
Active == [id |-> activeId, type |-> activeType]
Overs == Droppables(view.lists) \cup {Null}

StartEvent(active) ==
  /\ ~Dragging
  /\ active \in Draggables(view.lists)
  /\ handleDragStart(active)

HoverEvent(overId, translated, overRect) ==
  /\ Dragging
  /\ overId \in Overs
  /\ handleDragOver(Active, overId, translated, overRect)

EndEvent(overId) ==
  /\ Dragging
  /\ overId \in Overs
  /\ handleDragEnd(Active, overId)

CancelEvent ==
  /\ Dragging
  /\ handleDragCancel

Init ==
  /\ board = DEFAULT_BOARD
  /\ view = board
  /\ activeId = Null
  /\ activeType = Null
  /\ lastOverId = Null
  /\ recentlyMovedToNewContainer = FALSE
  /\ uuids = 0
  /\ changes = 0
  /\ op = [name |-> "init"]
  /\ before = board

(***************************************************************************)
(* The whole component: the drag events and the store operations the       *)
(* rendered board offers, up to MaxChanges changes of the board.  The      *)
(* history variables are not kept here.                                    *)
(***************************************************************************)
\* a step of the component: it counts a change of the board
Counted ==
  /\ changes' = IF board' = board THEN changes ELSE changes + 1
  /\ changes' <= MaxChanges
  /\ UNCHANGED <<op, before>>

\* a store operation issued from the UI: the updater runs on the store's board
Edit(next) ==
  /\ board' = next
  /\ Render
  /\ UNCHANGED dragVars
  /\ Counted

Start == \E active \in Draggables(view.lists) : StartEvent(active) /\ Counted

Hover ==
  \E overId \in Overs, translated \in Translateds, overRect \in OverRects :
    HoverEvent(overId, translated, overRect) /\ Counted

End == \E overId \in Overs : EndEvent(overId) /\ Counted

Cancel == CancelEvent /\ Counted

\* BoardHeader: if (trimmed && trimmed !== title) onTitleChange(trimmed)
UpdateBoardTitle ==
  \E title \in Titles :
    /\ title # view.title
    /\ Edit(updateBoardTitle(board, title))
    /\ UNCHANGED uuids

\* AddList: onAdd(trimmed)
AddList ==
  \E title \in Titles :
    /\ Edit(addList(board, generateId("list", uuids + 1), title))
    /\ uuids' = uuids + 1

\* ListColumn: onDelete={() => deleteList(list.id)}
DeleteList ==
  \E i \in 1..Len(view.lists) :
    /\ Edit(deleteList(board, view.lists[i].id))
    /\ UNCHANGED uuids

\* ListColumn: if (trimmed && trimmed !== list.title) onTitleChange(trimmed)
UpdateListTitle ==
  \E i \in 1..Len(view.lists), title \in Titles :
    /\ title # view.lists[i].title
    /\ Edit(updateListTitle(board, view.lists[i].id, title))
    /\ UNCHANGED uuids

\* ListColumn: onAddCard={(title) => addCard(list.id, title)}
AddCard ==
  \E i \in 1..Len(view.lists), title \in Titles :
    /\ Edit(addCard(board, view.lists[i].id, generateId("card", uuids + 1), title))
    /\ uuids' = uuids + 1

\* ListColumn: onDeleteCard={(cardId) => deleteCard(list.id, cardId)}
DeleteCard ==
  \E i \in 1..Len(view.lists) :
    \E k \in 1..Len(view.lists[i].cards) :
      /\ Edit(deleteCard(board, view.lists[i].id, view.lists[i].cards[k].id))
      /\ UNCHANGED uuids

\* CardItem: if (trimmed && trimmed !== card.title) onTitleChange(trimmed)
UpdateCardTitle ==
  \E i \in 1..Len(view.lists), title \in Titles :
    \E k \in 1..Len(view.lists[i].cards) :
      /\ title # view.lists[i].cards[k].title
      /\ Edit(updateCardTitle(board, view.lists[i].id,
                              view.lists[i].cards[k].id, title))
      /\ UNCHANGED uuids

\* CommentsModal, rendered when commentModal && modalCard:
\* onAddComment={(text) => addComment(commentModal.listId, commentModal.cardId, text)}
AddComment ==
  \E i \in 1..Len(view.lists), text \in Texts :
    \E k \in 1..Len(view.lists[i].cards) :
      /\ getCard(view, view.lists[i].id, view.lists[i].cards[k].id) # Undefined
      /\ Edit(addComment(board, view.lists[i].id, view.lists[i].cards[k].id,
                         generateId("comment", uuids + 1), text))
      /\ uuids' = uuids + 1

Next ==
  \/ Start
  \/ Hover
  \/ End
  \/ Cancel
  \/ UpdateBoardTitle
  \/ AddList
  \/ DeleteList
  \/ UpdateListTitle
  \/ AddCard
  \/ DeleteCard
  \/ UpdateCardTitle
  \/ AddComment

Spec == Init /\ [][Next]_vars

(***************************************************************************)
(* Drag sessions on their own, any number of them, the board changing only *)
(* through the moves the handlers issue.  One event of the run is          *)
(* observed: the history variables record it and the board before it, and  *)
(* the run ends there.                                                     *)
(***************************************************************************)
\* no event of the run has been observed yet
Running == op.name = "init"

Unobserved == UNCHANGED <<op, before, changes>>

Observed(o) ==
  /\ op' = o
  /\ before' = board
  /\ UNCHANGED changes

DragStart ==
  /\ Running
  /\ \E active \in Draggables(view.lists) : StartEvent(active) /\ Unobserved

DragHover ==
  /\ Running
  /\ \E overId \in Overs, translated \in Translateds, overRect \in OverRects :
       HoverEvent(overId, translated, overRect) /\ Unobserved

DragEnd ==
  /\ Running
  /\ \E overId \in Overs : EndEvent(overId) /\ Unobserved

DragCancel ==
  /\ Running
  /\ CancelEvent
  /\ Unobserved

ObservedStart ==
  /\ Running
  /\ \E active \in Draggables(view.lists) :
       /\ StartEvent(active)
       /\ Observed([name |-> "start", active |-> active])

ObservedHover ==
  /\ Running
  /\ \E overId \in Overs, translated \in Translateds, overRect \in OverRects :
       /\ HoverEvent(overId, translated, overRect)
       /\ Observed([name |-> "hover", active |-> Active,
                    overId |-> overId, translated |-> translated,
                    overRect |-> overRect,
                    wasMoved |-> recentlyMovedToNewContainer])

ObservedEnd ==
  /\ Running
  /\ \E overId \in Overs :
       /\ EndEvent(overId)
       /\ Observed([name |-> "end", active |-> Active, overId |-> overId,
                    wasMoved |-> recentlyMovedToNewContainer])

ObservedCancel ==
  /\ Running
  /\ CancelEvent
  /\ Observed([name |-> "cancel", active |-> Active,
               wasMoved |-> recentlyMovedToNewContainer])

\* the library delivers the observed Hover again, same over item and same
\* geometry, after a Hover that moved the card: up to MaxRepeats times
RepeatedHover ==
  /\ op.name \in {"hover", "repeat"}
  /\ LET first == IF op.name = "hover" THEN op ELSE op.first
         moved == IF op.name = "hover" THEN board ELSE op.moved
         count == IF op.name = "hover" THEN 0 ELSE op.count
     IN  /\ moved # before
         /\ count < MaxRepeats
         /\ HoverEvent(first.overId, first.translated, first.overRect)
         /\ op' = [name |-> "repeat", first |-> first, moved |-> moved,
                   count |-> count + 1]
         /\ UNCHANGED <<before, changes>>

DragNext ==
  \/ DragStart
  \/ DragHover
  \/ DragEnd
  \/ DragCancel
  \/ ObservedStart
  \/ ObservedHover
  \/ ObservedEnd
  \/ ObservedCancel
  \/ RepeatedHover

DragSpec == Init /\ [][DragNext]_vars

(***************************************************************************)
(* The handlers under events the session state does not expect: the        *)
(* handlers are plain callbacks, and nothing in them tells whether a drag   *)
(* is in progress.  One such event is observed after a run of drag         *)
(* sessions.  Lists and cards are deleted from the UI during the run, up   *)
(* to MaxChanges of them, also while they are dragged or hovered.          *)
(***************************************************************************)
HandlerDeleteList == Running /\ DeleteList
HandlerDeleteCard == Running /\ DeleteCard

\* the droppables of the first render that are no longer rendered
StaleOvers == Droppables(DEFAULT_BOARD.lists) \ Droppables(view.lists)

\* onDragOver / onDragEnd with an over item that has been deleted
ObservedStaleHover ==
  /\ Running
  /\ Dragging
  /\ \E overId \in StaleOvers, translated \in Translateds, overRect \in OverRects :
       /\ handleDragOver(Active, overId, translated, overRect)
       /\ Observed([name |-> "hover", active |-> Active,
                    overId |-> overId, translated |-> translated,
                    overRect |-> overRect,
                    wasMoved |-> recentlyMovedToNewContainer])

ObservedStaleEnd ==
  /\ Running
  /\ Dragging
  /\ \E overId \in StaleOvers :
       /\ handleDragEnd(Active, overId)
       /\ Observed([name |-> "end", active |-> Active, overId |-> overId,
                    wasMoved |-> recentlyMovedToNewContainer])

\* onDragOver / onDragEnd for a rendered item while no drag is in progress
ObservedIdleHover ==
  /\ Running
  /\ ~Dragging
  /\ \E active \in Draggables(view.lists), overId \in Overs,
        translated \in Translateds, overRect \in OverRects :
       /\ handleDragOver(active, overId, translated, overRect)
       /\ Observed([name |-> "idleHover", active |-> active,
                    overId |-> overId, translated |-> translated,
                    overRect |-> overRect,
                    wasMoved |-> recentlyMovedToNewContainer])

ObservedIdleEnd ==
  /\ Running
  /\ ~Dragging
  /\ \E active \in Draggables(view.lists), overId \in Overs :
       /\ handleDragEnd(active, overId)
       /\ Observed([name |-> "idleEnd", active |-> active, overId |-> overId,
                    wasMoved |-> recentlyMovedToNewContainer])

\* onDragStart called for a rendered item while a drag is in progress
RestartEvent(active) ==
  /\ Dragging
  /\ active \in Draggables(view.lists)
  /\ handleDragStart(active)

ObservedRestart ==
  /\ Running
  /\ \E active \in Draggables(view.lists) :
       /\ RestartEvent(active)
       /\ Observed([name |-> "restart", active |-> active, was |-> Active])

\* a store operation issued from the rendered board is the observed step
ObserveEdit(next, o) ==
  /\ Running
  /\ board' = next
  /\ Render
  /\ UNCHANGED dragVars
  /\ Observed(o)

ObservedUpdateBoardTitle ==
  \E title \in Titles :
    /\ title # view.title
    /\ ObserveEdit(updateBoardTitle(board, title),
                   [name |-> "updateBoardTitle", title |-> title])
    /\ UNCHANGED uuids

ObservedAddList ==
  \E title \in Titles :
    /\ ObserveEdit(addList(board, generateId("list", uuids + 1), title),
                   [name |-> "addList", title |-> title,
                    newId |-> generateId("list", uuids + 1)])
    /\ uuids' = uuids + 1

ObservedDeleteList ==
  \E i \in 1..Len(view.lists) :
    /\ ObserveEdit(deleteList(board, view.lists[i].id),
                   [name |-> "deleteList", listId |-> view.lists[i].id])
    /\ UNCHANGED uuids

ObservedUpdateListTitle ==
  \E i \in 1..Len(view.lists), title \in Titles :
    /\ title # view.lists[i].title
    /\ ObserveEdit(updateListTitle(board, view.lists[i].id, title),
                   [name |-> "updateListTitle", listId |-> view.lists[i].id,
                    title |-> title])
    /\ UNCHANGED uuids

ObservedAddCard ==
  \E i \in 1..Len(view.lists), title \in Titles :
    /\ ObserveEdit(addCard(board, view.lists[i].id,
                           generateId("card", uuids + 1), title),
                   [name |-> "addCard", listId |-> view.lists[i].id,
                    title |-> title, newId |-> generateId("card", uuids + 1)])
    /\ uuids' = uuids + 1

ObservedDeleteCard ==
  \E i \in 1..Len(view.lists) :
    \E k \in 1..Len(view.lists[i].cards) :
      /\ ObserveEdit(deleteCard(board, view.lists[i].id, view.lists[i].cards[k].id),
                     [name |-> "deleteCard", listId |-> view.lists[i].id,
                      cardId |-> view.lists[i].cards[k].id])
      /\ UNCHANGED uuids

ObservedUpdateCardTitle ==
  \E i \in 1..Len(view.lists), title \in Titles :
    \E k \in 1..Len(view.lists[i].cards) :
      /\ title # view.lists[i].cards[k].title
      /\ ObserveEdit(updateCardTitle(board, view.lists[i].id,
                                     view.lists[i].cards[k].id, title),
                     [name |-> "updateCardTitle", listId |-> view.lists[i].id,
                      cardId |-> view.lists[i].cards[k].id, title |-> title])
      /\ UNCHANGED uuids

ObservedAddComment ==
  \E i \in 1..Len(view.lists), text \in Texts :
    \E k \in 1..Len(view.lists[i].cards) :
      /\ getCard(view, view.lists[i].id, view.lists[i].cards[k].id) # Undefined
      /\ ObserveEdit(addComment(board, view.lists[i].id, view.lists[i].cards[k].id,
                                generateId("comment", uuids + 1), text),
                     [name |-> "addComment", listId |-> view.lists[i].id,
                      cardId |-> view.lists[i].cards[k].id, text |-> text,
                      newId |-> generateId("comment", uuids + 1)])
      /\ uuids' = uuids + 1

HandlerNext ==
  \/ DragNext
  \/ ObservedRestart
  \/ HandlerDeleteList
  \/ HandlerDeleteCard
  \/ ObservedStaleHover
  \/ ObservedStaleEnd
  \/ ObservedIdleHover
  \/ ObservedIdleEnd
  \/ ObservedUpdateBoardTitle
  \/ ObservedAddList
  \/ ObservedDeleteList
  \/ ObservedUpdateListTitle
  \/ ObservedAddCard
  \/ ObservedDeleteCard
  \/ ObservedUpdateCardTitle
  \/ ObservedAddComment

HandlerSpec == Init /\ [][HandlerNext]_vars

(***************************************************************************)
(* Drag sessions with the collision detection running during them, up to   *)
(* MaxChanges changes of the board.  One call of the strategy is observed  *)
(* with its argument and its result, and the run ends there.               *)
(***************************************************************************)
\* the rankings of at most MaxRanked of the given droppables
Ranked(S) ==
  {r \in UNION {[1..n -> S] : n \in 0..Min(MaxRanked, Cardinality(S))} :
     \A i, j \in 1..Len(r) : i # j => r[i] # r[j]}

\* the collisions of a detection algorithm, cut after the first one, which
\* is the only one getFirstCollision reads
FirstHits(S) == {<<>>} \cup {<<id>> : id \in S}

\* the cards of the list with the given id and the list itself
ListAndCards(lists, id) ==
  {id} \cup {lists[FindIndexById(lists, id) + 1].cards[k].id :
               k \in 1..Len(lists[FindIndexById(lists, id) + 1].cards)}

\* the arguments of a call, as far as the strategy reads them: a list drag
\* reads the ranking only; a card drag reads rectIntersection when
\* pointerWithin is empty, and the ranking of a hit list and its cards
CollisionArgs(lists, aType) ==
  LET D == Droppables(lists)
      Args(p, r, C) == {[droppableContainers |-> D, pointer |-> p, rects |-> r,
                         centers |-> c] : c \in C}
      CentersFor(hit) == IF hit # <<>> /\ hit[1] \in listIds(lists)
                         THEN Ranked(ListAndCards(lists, hit[1]))
                         ELSE {<<>>}
  IN  IF aType = "list" THEN Args(<<>>, <<>>, Ranked(D))
      ELSE UNION {Args(p, <<>>, CentersFor(p)) : p \in FirstHits(D) \ {<<>>}}
           \cup UNION {Args(<<>>, r, CentersFor(r)) : r \in FirstHits(D)}

\* the library calls the strategy while a drag is in progress
ResolveEvent(args) ==
  /\ Dragging
  /\ lastOverId' = collisionDetectionStrategy(view.lists, activeType, activeId,
                     lastOverId, recentlyMovedToNewContainer, args).lastOverId
  /\ UNCHANGED <<board, activeId, activeType, recentlyMovedToNewContainer, uuids>>
  /\ Render

Resolve ==
  /\ Running
  /\ \E args \in CollisionArgs(view.lists, activeType) :
       ResolveEvent(args) /\ Unobserved

ObservedResolve ==
  /\ Running
  /\ \E args \in CollisionArgs(view.lists, activeType) :
       /\ ResolveEvent(args)
       /\ Observed([name |-> "resolve", active |-> Active, args |-> args,
                    last |-> lastOverId,
                    wasMoved |-> recentlyMovedToNewContainer,
                    collisions |-> collisionDetectionStrategy(view.lists,
                       activeType, activeId, lastOverId,
                       recentlyMovedToNewContainer, args).collisions])

ResolverStart == Running /\ Start
ResolverHover == Running /\ Hover
ResolverEnd == Running /\ End
ResolverCancel == Running /\ Cancel

ResolverNext ==
  \/ ResolverStart
  \/ ResolverHover
  \/ ResolverEnd
  \/ ResolverCancel
  \/ Resolve
  \/ ObservedResolve

ResolverSpec == Init /\ [][ResolverNext]_vars

(***************************************************************************)
(* The first call of the strategy in a drag session.  After a run of       *)
(* sessions with calls of the strategy, one Start is observed, and the     *)
(* first call of the strategy in the session it opens is recorded with     *)
(* its argument and its result.                                            *)
(***************************************************************************)
ObservedSessionStart ==
  /\ Running
  /\ \E active \in Draggables(view.lists) :
       /\ StartEvent(active)
       /\ Observed([name |-> "session", active |-> active])

FirstResolve ==
  /\ op.name = "session"
  /\ \E args \in CollisionArgs(view.lists, activeType) :
       /\ ResolveEvent(args)
       /\ op' = [name |-> "firstResolve", active |-> Active, args |-> args,
                 last |-> lastOverId,
                 wasMoved |-> recentlyMovedToNewContainer,
                 collisions |-> collisionDetectionStrategy(view.lists,
                    activeType, activeId, lastOverId,
                    recentlyMovedToNewContainer, args).collisions]
       /\ UNCHANGED <<before, changes>>

SessionNext ==
  \/ ResolverStart
  \/ ResolverHover
  \/ ResolverEnd
  \/ ResolverCancel
  \/ Resolve
  \/ ObservedSessionStart
  \/ FirstResolve

SessionSpec == Init /\ [][SessionNext]_vars

(***************************************************************************)
(* Handlers and renders interleaved.  setBoard queues the updater, which   *)
(* gets the store's board as prev, and React renders the component later:  *)
(* until then the handlers are the closures of the last render and read    *)
(* its board.lists.  Here a Hover may be handled with no render after it,  *)
(* the render is a step of its own, and one Hover or End, handled before   *)
(* or after that render, is observed with the store call it makes.         *)
(***************************************************************************)
\* handleDragOver, the render not yet done
PendingHoverEvent(overId, translated, overRect) ==
  LET c == DragOverCall(view.lists, activeType, Active, overId, translated,
                        overRect)
  IN  /\ Dragging
      /\ overId \in Overs
      /\ recentlyMovedToNewContainer' =
           IF c.call = "moveCard" THEN TRUE ELSE recentlyMovedToNewContainer
      /\ board' = ApplyCall(board, c)
      /\ UNCHANGED <<view, activeId, activeType, lastOverId, uuids>>

\* handleDragEnd, the render not yet done
PendingEndEvent(overId) ==
  /\ Dragging
  /\ overId \in Overs
  /\ activeId' = Null
  /\ activeType' = Null
  /\ recentlyMovedToNewContainer' = FALSE
  /\ board' = ApplyCall(board, DragEndCall(view.lists, Active, overId))
  /\ UNCHANGED <<view, lastOverId, uuids>>

\* a Hover that moves the card, handled with no render after it
UnrenderedHover ==
  /\ Running
  /\ view = board
  /\ \E overId \in Overs, translated \in Translateds, overRect \in OverRects :
       /\ PendingHoverEvent(overId, translated, overRect)
       /\ board' # board
       /\ Unobserved

\* the render of the board the store holds
LateRender ==
  /\ Running
  /\ view # board
  /\ view' = board
  /\ UNCHANGED <<board, dragVars, uuids>>
  /\ Unobserved

ObservedPendingHover ==
  /\ Running
  /\ \E overId \in Overs, translated \in Translateds, overRect \in OverRects :
       /\ PendingHoverEvent(overId, translated, overRect)
       /\ Observed([name |-> "pendingHover", active |-> Active,
                    overId |-> overId,
                    call |-> DragOverCall(view.lists, activeType, Active,
                                          overId, translated, overRect)])

ObservedPendingEnd ==
  /\ Running
  /\ \E overId \in Overs :
       /\ PendingEndEvent(overId)
       /\ Observed([name |-> "pendingEnd", active |-> Active,
                    overId |-> overId,
                    call |-> DragEndCall(view.lists, Active, overId)])

PendingNext ==
  \/ DragStart
  \/ DragHover
  \/ DragEnd
  \/ DragCancel
  \/ UnrenderedHover
  \/ LateRender
  \/ ObservedPendingHover
  \/ ObservedPendingEnd

PendingSpec == Init /\ [][PendingNext]_vars

(***************************************************************************)
(* moveList and moveCard on references.  They are the two updaters that    *)
(* call a mutating method (splice); the others are built from object and   *)
(* array literals, map and filter.  The heap is a sequence of arrays, an    *)
(* address is an index into it; a board holds the address of its lists     *)
(* array and a list object the address of its cards array.                 *)
(***************************************************************************)
\* a board value laid out on a heap of its own, and the reference to it
HeapOf(b) ==
  LET n == Len(b.lists)
  IN  [a \in 1..(n + 1) |->
         IF a <= n THEN b.lists[a].cards
         ELSE [i \in 1..n |-> [id |-> b.lists[i].id, title |-> b.lists[i].title,
                               cards |-> i]]]
RefOf(b) == [id |-> b.id, title |-> b.title, lists |-> Len(b.lists) + 1]

\* the board value a holder of the reference reads
Deref(heap, ref) ==
  [id |-> ref.id, title |-> ref.title,
   lists |-> [i \in 1..Len(heap[ref.lists]) |->
                LET l == heap[ref.lists][i]
                IN  IF l = Undefined THEN Undefined
                    ELSE [id |-> l.id, title |-> l.title, cards |-> heap[l.cards]]]]

\* an array method that edits the array at the address in place
WriteArray(heap, a, content) == [heap EXCEPT ![a] = content]

\* moveList: newLists = [...prev.lists], two splices on it, {...prev, lists}
moveListRef(heap, prev, fromIndex, toIndex) ==
  LET newLists == Len(heap) + 1
      heap1    == Append(heap, heap[prev.lists])
      moved    == MovedList(heap1[newLists], fromIndex)
      heap2    == WriteArray(heap1, newLists,
                             SpliceDelete(heap1[newLists], fromIndex, 1))
      heap3    == WriteArray(heap2, newLists,
                             SpliceInsert(heap2[newLists], toIndex, moved))
  IN  [heap |-> heap3, ref |-> [prev EXCEPT !.lists = newLists]]

\* (mutant) newLists = [...prev.lists]: the list objects and their cards
\* arrays are those of prev
CopiedListsShared(heap, prev) ==
  [heap |-> Append(heap, heap[prev.lists]), lists |-> Len(heap) + 1]

\* newLists = prev.lists.map((list) => ({...list, cards: [...list.cards]})):
\* the heap with the copies, and the address of newLists
CopiedLists(heap, prev) ==
  LET old  == heap[prev.lists]
      base == Len(heap)
      heap1 == heap \o [i \in 1..Len(old) |-> heap[old[i].cards]]
  IN  [heap |-> Append(heap1, [i \in 1..Len(old) |->
                                 [old[i] EXCEPT !.cards = base + i]]),
       lists |-> base + Len(old) + 1]

\* moveCard on references
moveCardRef(heap, prev, sourceListId, destListId, sourceIndex, destIndex) ==
  LET copy     == CopiedLists(heap, prev)
      newLists == copy.heap[copy.lists]
      s == FindIndexById(newLists, sourceListId) + 1
      d == FindIndexById(newLists, destListId) + 1
  IN  IF s = 0 \/ d = 0 THEN [heap |-> copy.heap, ref |-> prev]
      ELSE
        LET sourceCards == newLists[s].cards
            destCards   == newLists[d].cards
        IN  IF SourceIndexOutOfRange(sourceIndex, Len(copy.heap[sourceCards]))
            THEN [heap |-> copy.heap, ref |-> prev]
            ELSE
              LET removed == SpliceRemoved(copy.heap[sourceCards], sourceIndex, 1)
                  heap2   == WriteArray(copy.heap, sourceCards,
                               SpliceDelete(copy.heap[sourceCards], sourceIndex, 1))
              IN  IF Len(removed) = 0 THEN [heap |-> heap2, ref |-> prev]
                  ELSE [heap |-> WriteArray(heap2, destCards,
                                   SpliceInsert(heap2[destCards],
                                     clampedDest(destIndex, Len(heap2[destCards])),
                                     removed[1])),
                        ref |-> [prev EXCEPT !.lists = copy.lists]]

\* one call on a board the store can hold; the step records the heap and
\* the reference before the call and after it
RefCall(result, o) ==
  /\ op.name = "init"
  /\ op' = [o EXCEPT !.heapBefore = HeapOf(board), !.prev = RefOf(board),
                     !.heapAfter = result.heap, !.next = result.ref]
  /\ before' = board
  /\ board' = Deref(result.heap, result.ref)
  /\ Render
  /\ UNCHANGED <<dragVars, changes, uuids>>

RefMoveList ==
  \E fromIndex \in IndexArgs, toIndex \in IndexArgs :
    RefCall(moveListRef(HeapOf(board), RefOf(board), fromIndex, toIndex),
            [name |-> "moveList", fromIndex |-> fromIndex, toIndex |-> toIndex,
             heapBefore |-> <<>>, prev |-> <<>>, heapAfter |-> <<>>, next |-> <<>>])

RefMoveCard ==
  \E sourceListId \in ListIdArgs, destListId \in ListIdArgs,
     sourceIndex \in IndexArgs, destIndex \in IndexArgs :
    RefCall(moveCardRef(HeapOf(board), RefOf(board), sourceListId, destListId,
                        sourceIndex, destIndex),
            [name |-> "moveCard",
             sourceListId |-> sourceListId, destListId |-> destListId,
             sourceIndex |-> sourceIndex, destIndex |-> destIndex,
             heapBefore |-> <<>>, prev |-> <<>>, heapAfter |-> <<>>, next |-> <<>>])

RefNext ==
  \/ RefMoveList
  \/ RefMoveCard

RefSpec == StoreInit /\ [][RefNext]_vars

\* ---- PROPERTIES ----
(***************************************************************************)
(* Vocabulary of the properties.  These are written from the statements,   *)
(* with their own sequence arithmetic, not with the splice operators.      *)
(***************************************************************************)
HasList(b, listId) == \E i \in 1..Len(b.lists) : b.lists[i].id = listId
ListOf(b, listId) ==
  b.lists[CHOOSE i \in 1..Len(b.lists) : b.lists[i].id = listId]
CardsOf(b, listId) == ListOf(b, listId).cards

\* the sequence without its element at position i (1-based)
RemoveAt(s, i) == SubSeq(s, 1, i - 1) \o SubSeq(s, i + 1, Len(s))

\* how often an id occurs in a sequence of entities
Count(s, id) == Cardinality({i \in 1..Len(s) : s[i].id = id})

\* the last operation was a moveCard whose lists exist and whose source
\* index is in range
MoveCardValid ==
  /\ op.name = "moveCard"
  /\ HasList(before, op.sourceListId)
  /\ HasList(before, op.destListId)
  /\ op.sourceIndex >= 0
  /\ op.sourceIndex < Len(CardsOf(before, op.sourceListId))

\* the destination array at the time of the insertion
DestAtInsertion ==
  IF op.sourceListId = op.destListId
  THEN RemoveAt(CardsOf(before, op.sourceListId), op.sourceIndex + 1)
  ELSE CardsOf(before, op.destListId)

\* C1: a valid moveCard with destIndex >= 0 takes the card at sourceIndex out
\* of the source list and puts it at index min(destIndex, L) of the
\* destination list, L being the destination's length at insertion; all
\* other cards of both lists keep their order.  Scenario A: A=[c1,c2],
\* B=[c3], moveCard(A,B,0,1) gives A=[c2], B=[c3,c1].
C1_MoveCardPlacesCard ==
  /\ (MoveCardValid /\ op.destIndex >= 0) =>
       LET src      == CardsOf(before, op.sourceListId)
           card     == src[op.sourceIndex + 1]
           L        == Len(DestAtInsertion)
           p        == IF op.destIndex < L THEN op.destIndex ELSE L
           dstAfter == CardsOf(board, op.destListId)
       IN  /\ Len(dstAfter) = L + 1
           /\ dstAfter[p + 1] = card
           /\ RemoveAt(dstAfter, p + 1) = DestAtInsertion
           /\ op.sourceListId # op.destListId =>
                CardsOf(board, op.sourceListId) = RemoveAt(src, op.sourceIndex + 1)
  /\ (/\ before = DEFAULT_BOARD
      /\ op = [name |-> "moveCard", sourceListId |-> "list-1",
               destListId |-> "list-2", sourceIndex |-> 0, destIndex |-> 1]) =>
       /\ Ids(CardsOf(board, "list-1")) = <<"card-2">>
       /\ Ids(CardsOf(board, "list-2")) = <<"card-3", "card-1">>

\* a move across lists with a destination index beyond the destination's end
C1_Witness ==
  /\ MoveCardValid
  /\ op.sourceListId # op.destListId
  /\ op.destIndex > Len(CardsOf(before, op.destListId))
  /\ Len(CardsOf(before, op.destListId)) > 0
  /\ Len(CardsOf(before, op.sourceListId)) > 1
  /\ board # before

\* C2: a valid moveCard, within one list or across two, keeps the multiset of
\* card ids over the source and destination lists, and leaves every other
\* list as it was.
C2_MoveCardConserves ==
  MoveCardValid =>
    /\ Len(board.lists) = Len(before.lists)
    /\ \A i \in 1..Len(before.lists) :
         /\ board.lists[i].id = before.lists[i].id
         /\ before.lists[i].id \notin {op.sourceListId, op.destListId} =>
              board.lists[i] = before.lists[i]
    /\ LET both(b) == IF op.sourceListId = op.destListId
                      THEN CardsOf(b, op.sourceListId)
                      ELSE CardsOf(b, op.sourceListId) \o CardsOf(b, op.destListId)
       IN  /\ Len(both(board)) = Len(both(before))
           /\ \A i \in 1..Len(both(before)) :
                Count(both(board), both(before)[i].id) =
                  Count(both(before), both(before)[i].id)

\* a move within one list that changes the order, with a negative destination
C2_Witness ==
  /\ MoveCardValid
  /\ op.sourceListId = op.destListId
  /\ op.destIndex < 0
  /\ Len(CardsOf(before, op.sourceListId)) = 3
  /\ board # before

\* C3: moveCard with an unknown source list, an unknown destination list or
\* a source index outside [0, length) returns the board unchanged.
C3_MoveCardInvalidIsNoOp ==
  (op.name = "moveCard" /\ ~MoveCardValid) => board = before

\* a negative source index on a source list that has cards
C3_Witness ==
  /\ op.name = "moveCard"
  /\ HasList(before, op.sourceListId)
  /\ HasList(before, op.destListId)
  /\ op.sourceListId # op.destListId
  /\ op.sourceIndex < 0
  /\ Len(CardsOf(before, op.sourceListId)) > 0
  /\ board = before

\* the last operation was a moveList with fromIndex in range
MoveListValid ==
  /\ op.name = "moveList"
  /\ op.fromIndex >= 0
  /\ op.fromIndex < Len(before.lists)

\* C4: moveList(fromIndex, toIndex) with 0 <= fromIndex < n and toIndex >= 0
\* keeps the length and the multiset of list ids, puts the moved list at
\* index min(toIndex, n - 1) and keeps the order of the others.  Scenario B:
\* moveList(0,2) on [L1,L2,L3] gives [L2,L3,L1].
C4_MoveListPermutes ==
  /\ (MoveListValid /\ op.toIndex >= 0) =>
       LET n == Len(before.lists)
           p == IF op.toIndex < n - 1 THEN op.toIndex ELSE n - 1
       IN  /\ Len(board.lists) = n
           /\ \A i \in 1..n :
                Count(board.lists, before.lists[i].id) =
                  Count(before.lists, before.lists[i].id)
           /\ board.lists[p + 1] = before.lists[op.fromIndex + 1]
           /\ RemoveAt(board.lists, p + 1) = RemoveAt(before.lists, op.fromIndex + 1)
  /\ (/\ Ids(before.lists) = <<"list-1", "list-2", "list-3">>
      /\ op = [name |-> "moveList", fromIndex |-> 0, toIndex |-> 2]) =>
       Ids(board.lists) = <<"list-2", "list-3", "list-1">>

\* Scenario B itself, and a target index beyond the end
C4_Witness ==
  /\ MoveListValid
  /\ Len(before.lists) = 3
  /\ op.fromIndex = 0
  /\ op.toIndex >= 2
  /\ Ids(before.lists) = <<"list-1", "list-2", "list-3">>
  /\ Ids(board.lists) = <<"list-2", "list-3", "list-1">>

\* C5: moveList with fromIndex < 0 or fromIndex >= n leaves the board
\* unchanged, for every toIndex.
C5_MoveListOutOfBoundsIsNoOp ==
  (op.name = "moveList" /\ ~MoveListValid) => board = before

\* C6: an out-of-range destination index of a valid moveCard is clamped to
\* the nearest valid position: beyond the end inserts at the end, below 0
\* inserts at index 0.
C6_DestIndexClamped ==
  MoveCardValid =>
    LET card     == CardsOf(before, op.sourceListId)[op.sourceIndex + 1]
        L        == Len(DestAtInsertion)
        dstAfter == CardsOf(board, op.destListId)
    IN  /\ op.destIndex > L => dstAfter[L + 1] = card
        /\ op.destIndex < 0 => dstAfter[1] = card

\* every card of the board, as <<list position, card position>>
CardPlaces(b) ==
  UNION {{<<i, k>> : k \in 1..Len(b.lists[i].cards)} : i \in 1..Len(b.lists)}

\* C7: in every state reachable from the default board by drag events and
\* store operations, list ids are pairwise distinct and every card id of the
\* board occurs in exactly one list, exactly once.
C7_IdsUnique ==
  /\ \A i, j \in 1..Len(board.lists) :
       i # j => board.lists[i].id # board.lists[j].id
  /\ \A x, y \in CardPlaces(board) :
       x # y => board.lists[x[1]].cards[x[2]].id # board.lists[y[1]].cards[y[2]].id

\* a list added from the UI holds a card that a drag moved into it
C7_Witness ==
  \E i \in 1..Len(board.lists) :
    /\ board.lists[i].id = generateId("list", 1)
    /\ Len(board.lists[i].cards) > 0
    /\ Dragging

\* the list that holds the card, and what an id of the board resolves to
HasCard(b, cardId) ==
  \E i \in 1..Len(b.lists) : \E k \in 1..Len(b.lists[i].cards) :
    b.lists[i].cards[k].id = cardId
OwnerOf(b, cardId) ==
  b.lists[CHOOSE i \in 1..Len(b.lists) :
            \E k \in 1..Len(b.lists[i].cards) : b.lists[i].cards[k].id = cardId].id
ResolvesTo(b, id) ==
  IF HasList(b, id) THEN id ELSE IF HasCard(b, id) THEN OwnerOf(b, id) ELSE Null

\* the 0-based index of a card in a list of the board
IndexIn(b, listId, cardId) ==
  (CHOOSE k \in 1..Len(CardsOf(b, listId)) : CardsOf(b, listId)[k].id = cardId) - 1

\* the observed event is a Hover of a card drag over an item of another list
\* than the one that holds the active card
CrossHover ==
  /\ op.name = "hover"
  /\ op.active.type = "card"
  /\ HasCard(before, op.active.id)
  /\ op.overId # Null
  /\ ResolvesTo(before, op.overId) # Null
  /\ ResolvesTo(before, op.overId) # OwnerOf(before, op.active.id)

\* C8: a Hover of a card drag whose overId resolves to another list than the
\* one that holds the active card moves the card at once: right after it the
\* card is out of its former list and in the over item's list, and the
\* just-switched-container flag is set.
C8_CrossHoverMovesAtOnce ==
  CrossHover =>
    /\ ~SomeById(CardsOf(board, OwnerOf(before, op.active.id)), op.active.id)
    /\ SomeById(CardsOf(board, ResolvesTo(before, op.overId)), op.active.id)
    /\ OwnerOf(board, op.active.id) = ResolvesTo(before, op.overId)
    /\ recentlyMovedToNewContainer = TRUE

\* a first cross-container hover of a session, over a card
C8_Witness ==
  /\ CrossHover
  /\ ~op.wasMoved
  /\ HasCard(before, op.overId)
  /\ recentlyMovedToNewContainer
  /\ activeId = op.active.id

\* C9: a cross-container Hover whose overId is the destination list's own id
\* inserts the active card at the destination's current length: it becomes
\* the last card of that list, the only one when the list was empty.
C9_HoverOverListAppends ==
  (CrossHover /\ HasList(before, op.overId)) =>
    LET n     == Len(CardsOf(before, op.overId))
        after == CardsOf(board, op.overId)
    IN  /\ Len(after) = n + 1
        /\ after[n + 1].id = op.active.id
        /\ SubSeq(after, 1, n) = CardsOf(before, op.overId)
        /\ n = 0 => Ids(after) = <<op.active.id>>

\* a hover over a list that already holds two cards
C9_Witness ==
  /\ CrossHover
  /\ HasList(before, op.overId)
  /\ Len(CardsOf(before, op.overId)) = 2
  /\ IndexIn(board, op.overId, op.active.id) = 2

\* the dragged rectangle is measured and its top edge lies below the vertical
\* midpoint of the rectangle of the item under it
BelowMidpoint ==
  /\ op.translated # NoRect
  /\ 2 * (op.translated.top - op.overRect.top) > op.overRect.height

\* C10: a cross-container Hover whose overId is a card X at index k of the
\* destination list inserts the active card at index k when the dragged item
\* is not below X's vertical midpoint and at index k + 1 when it is: the
\* active card is then right before X, respectively right after X.
C10_HoverOverCardInsertsBeside ==
  (CrossHover /\ HasCard(before, op.overId) /\ op.translated # NoRect) =>
    LET dest == OwnerOf(before, op.overId)
        k    == IndexIn(before, dest, op.overId)
        a    == IndexIn(board, dest, op.active.id)
        x    == IndexIn(board, dest, op.overId)
    IN  /\ OwnerOf(board, op.active.id) = dest
        /\ BelowMidpoint => a = k + 1 /\ x = k
        /\ ~BelowMidpoint => a = k /\ x = k + 1
        /\ RemoveAt(CardsOf(board, dest), a + 1) = CardsOf(before, dest)

\* the dragged card is dropped between the two cards of the destination
C10_Witness ==
  /\ CrossHover
  /\ HasCard(before, op.overId)
  /\ BelowMidpoint
  /\ Len(CardsOf(before, OwnerOf(before, op.overId))) = 2
  /\ IndexIn(before, OwnerOf(before, op.overId), op.overId) = 0
  /\ IndexIn(board, OwnerOf(before, op.overId), op.active.id) = 1

\* the observed event is a Hover of a card drag over an item that resolves to
\* the list that holds the active card
SameListHover ==
  /\ op.name = "hover"
  /\ op.active.type = "card"
  /\ HasCard(before, op.active.id)
  /\ op.overId # Null
  /\ ResolvesTo(before, op.overId) = OwnerOf(before, op.active.id)

\* C11: a Hover of a card drag whose overId resolves to the list that holds
\* the active card (a sibling card, the active card itself or that list's own
\* id) performs no move: the board and the just-switched-container flag are
\* what they were before it.
C11_SameListHoverIsNoOp ==
  SameListHover =>
    /\ board = before
    /\ recentlyMovedToNewContainer = op.wasMoved

\* a hover over a sibling card, below its midpoint, in a session that has
\* not switched container
C11_Witness ==
  /\ SameListHover
  /\ HasCard(before, op.overId)
  /\ op.overId # op.active.id
  /\ BelowMidpoint
  /\ ~op.wasMoved
  /\ ~recentlyMovedToNewContainer
  /\ board = before

\* C12: Hover is idempotent after its single relocation: when a Hover of a
\* card drag has moved the card to another list, the same Hover (same over
\* item, same geometry) handled again on the resulting board, any number of
\* times, changes the board no further.
C12_RepeatedHoverIsIdempotent ==
  op.name = "repeat" =>
    /\ board = op.moved
    /\ recentlyMovedToNewContainer = TRUE

\* the Hover over a card of another list has been handled MaxRepeats more
\* times after it moved the active card there
C12_Witness ==
  /\ op.name = "repeat"
  /\ op.count = MaxRepeats
  /\ op.first.active.type = "card"
  /\ HasCard(before, op.first.overId)
  /\ op.moved # before
  /\ OwnerOf(op.moved, op.first.active.id) # OwnerOf(before, op.first.active.id)
  /\ board = op.moved

\* the 1-based position of a list on the board
PlaceOf(b, listId) == CHOOSE i \in 1..Len(b.lists) : b.lists[i].id = listId

\* the observed event is the End of a drag of a list of the board
ListEnd ==
  /\ op.name = "end"
  /\ op.active.type = "list"
  /\ HasList(before, op.active.id)

\* C13: the End of a list drag over another list puts the active list at the
\* index the over list held before the End, the other lists keeping their
\* relative order (and every list its content); when overId is the active
\* list, is not a list id, or there is no over target, the board is unchanged.
C13_ListEndMovesList ==
  ListEnd =>
    IF op.overId # Null /\ HasList(before, op.overId) /\ op.overId # op.active.id
    THEN LET from == PlaceOf(before, op.active.id)
             to   == PlaceOf(before, op.overId)
         IN  /\ Len(board.lists) = Len(before.lists)
             /\ board.lists[to] = before.lists[from]
             /\ RemoveAt(board.lists, to) = RemoveAt(before.lists, from)
             /\ board = [before EXCEPT !.lists = board.lists]
    ELSE board = before

\* the first list is dropped on the third, with a list between them
C13_Witness ==
  /\ ListEnd
  /\ Len(before.lists) = 3
  /\ PlaceOf(before, op.active.id) = 1
  /\ op.overId # Null
  /\ HasList(before, op.overId)
  /\ PlaceOf(before, op.overId) = 3
  /\ PlaceOf(board, op.active.id) = 3
  /\ Ids(board.lists) = <<before.lists[2].id, before.lists[3].id, op.active.id>>

\* the observed event is the End of a drag of a card of the board
CardEnd ==
  /\ op.name = "end"
  /\ op.active.type = "card"
  /\ HasCard(before, op.active.id)

\* the End is over an item that resolves to the list holding the active card
SameListEnd ==
  /\ CardEnd
  /\ op.overId # Null
  /\ ResolvesTo(before, op.overId) = OwnerOf(before, op.active.id)

\* C14: the End of a card drag moves the card only when the active card and
\* overId resolve to the same list; over another card of that list, the
\* active card ends at the index the over card held before the End and the
\* remaining cards keep their relative order.  When the two resolve to
\* different lists (or overId resolves to none) the board is unchanged.
C14_CardEndReordersInList ==
  /\ (CardEnd /\ ~SameListEnd) => board = before
  /\ SameListEnd =>
       LET owner == OwnerOf(before, op.active.id)
       IN  /\ Len(board.lists) = Len(before.lists)
           /\ \A i \in 1..Len(before.lists) :
                before.lists[i].id # owner => board.lists[i] = before.lists[i]
           /\ board = [before EXCEPT !.lists = board.lists]
           /\ (HasCard(before, op.overId) /\ op.overId # op.active.id) =>
                LET a == IndexIn(before, owner, op.active.id)
                    k == IndexIn(before, owner, op.overId)
                IN  /\ OwnerOf(board, op.active.id) = owner
                    /\ IndexIn(board, owner, op.active.id) = k
                    /\ RemoveAt(CardsOf(board, owner), k + 1) =
                         RemoveAt(CardsOf(before, owner), a + 1)

\* the first card of a list of three is dropped on the last one
C14_Witness ==
  /\ SameListEnd
  /\ HasCard(before, op.overId)
  /\ Len(CardsOf(before, OwnerOf(before, op.active.id))) = 3
  /\ IndexIn(before, OwnerOf(before, op.active.id), op.active.id) = 0
  /\ IndexIn(before, OwnerOf(before, op.active.id), op.overId) = 2
  /\ IndexIn(board, OwnerOf(before, op.active.id), op.active.id) = 2

\* the session is Idle: no active id and no active kind
Idle == activeId = Null /\ activeType = Null

\* C15: every End leaves the session Idle with the just-switched-container
\* flag false, whatever the over target is, also with no over target and
\* when no move is performed.
C15_EndLeavesIdle ==
  op.name = "end" => Idle /\ recentlyMovedToNewContainer = FALSE

\* an End with no over target, in a session whose Hover had set the flag
C15_Witness ==
  /\ op.name = "end"
  /\ op.overId = Null
  /\ op.wasMoved
  /\ board = before
  /\ Idle
  /\ ~recentlyMovedToNewContainer

\* C16: Cancel leaves the session Idle with the flag false and the board as
\* it was right before the Cancel: the moves that the Hovers of the cancelled
\* session applied are not reversed.
C16_CancelKeepsBoard ==
  op.name = "cancel" =>
    /\ Idle
    /\ recentlyMovedToNewContainer = FALSE
    /\ board = before

\* the first session of the run is cancelled after a Hover moved the default
\* board's card-1 out of list-1: the card is still where the Hover put it
C16_Witness ==
  /\ op.name = "cancel"
  /\ op.wasMoved
  /\ op.active.id = "card-1"
  /\ HasCard(board, "card-1")
  /\ OwnerOf(board, "card-1") # "list-1"
  /\ Ids(CardsOf(board, "list-1")) = <<"card-2">>
  /\ board = before
  /\ Idle

\* C17: Start is taken from Idle only: a Start received while the session is
\* Dragging replaces neither the active id nor the active kind; and no Start
\* changes the board.
C17_StartFromIdleOnly ==
  /\ op.name = "restart" =>
       /\ activeId = op.was.id
       /\ activeType = op.was.type
  /\ op.name \in {"start", "restart"} => board = before

\* the observed call of the strategy is made during a drag of the given kind
Resolved(kind) == op.name = "resolve" /\ op.active.type = kind

\* neither detection algorithm reports a collision
NoMatch == op.args.pointer = <<>> /\ op.args.rects = <<>>

\* C18: whenever the active drag kind is list, every target the strategy
\* returns is the id of a list of the current board and never a card id,
\* whatever the geometry and the remembered previous target are.
C18_ListDragTargetsAreLists ==
  Resolved("list") =>
    \A i \in 1..Len(op.collisions) :
      /\ HasList(board, op.collisions[i])
      /\ ~HasCard(board, op.collisions[i])

\* the nearest droppable is a card, the strategy returns the list behind it,
\* with a previous target remembered from a card drag
C18_Witness ==
  /\ Resolved("list")
  /\ Len(op.args.centers) = MaxRanked
  /\ HasCard(board, op.args.centers[1])
  /\ HasList(board, op.args.centers[MaxRanked])
  /\ op.collisions = <<op.args.centers[MaxRanked]>>
  /\ op.last # Null

\* C19 as stated: during a card drag, with no geometric match and the
\* just-switched-container flag set, the strategy forgets the previous target
\* and returns an empty result.
C19_NoMatchAfterSwitchIsEmpty ==
  (Resolved("card") /\ NoMatch /\ op.wasMoved) =>
    /\ op.collisions = <<>>
    /\ lastOverId = Null

\* C19: during a card drag, with no geometric match and the
\* just-switched-container flag set, the strategy replaces the previous target
\* by the id of the active card and returns the active card as the one target.
C19_NoMatchAfterSwitchIsActive ==
  (Resolved("card") /\ NoMatch /\ op.wasMoved) =>
    /\ op.collisions = <<op.active.id>>
    /\ lastOverId = op.active.id

\* the previous target was a card other than the active one
C19_Witness ==
  /\ Resolved("card")
  /\ NoMatch
  /\ op.wasMoved
  /\ op.last # Null
  /\ op.last # op.active.id
  /\ HasCard(board, op.last)
  /\ lastOverId = op.active.id

Holders(b, id) ==
  {i \in 1..Len(b.lists) :
     \E k \in 1..Len(b.lists[i].cards) : b.lists[i].cards[k].id = id}

\* the ids locate is asked about: those of the default board and two more
LocateArgs ==
  ListIdArgs \cup CardIdArgs \cup {generateId("list", 1), generateId("card", 1)}

\* C21: locate(itemId) on the current board is itemId itself when it is the
\* id of a list, else the id of the one list whose cards hold a card with
\* that id, else not-found; and after a move of a card to another list its
\* locate is the new list, not the former one.
C21_LocateFindsOwner ==
  /\ \A id \in LocateArgs :
       IF HasList(board, id) THEN findContainer(board.lists, id) = id
       ELSE IF Holders(board, id) # {}
            THEN /\ Cardinality(Holders(board, id)) = 1
                 /\ \A i \in Holders(board, id) :
                      findContainer(board.lists, id) = board.lists[i].id
            ELSE findContainer(board.lists, id) = Null
  /\ (op.name = "hover" /\ board # before) =>
       /\ findContainer(board.lists, op.active.id) =
            ResolvesTo(before, op.overId)
       /\ findContainer(board.lists, op.active.id) #
            findContainer(before.lists, op.active.id)
       /\ op.active.id \in LocateArgs

\* a Hover has moved a card to another list, on a board from which a list
\* and a card have been deleted
C21_Witness ==
  /\ op.name = "hover"
  /\ board # before
  /\ findContainer(before.lists, op.active.id) # Null
  /\ findContainer(board.lists, op.active.id) = ResolvesTo(before, op.overId)
  /\ \E id \in ListIdArgs : findContainer(board.lists, id) = Null
  /\ \E id \in CardIdArgs : findContainer(board.lists, id) = Null

\* the active id or the over id of the observed Hover or End resolves to no
\* list of the board, or there is no over target
Unresolved ==
  \/ op.overId = Null
  \/ ResolvesTo(before, op.active.id) = Null
  \/ ResolvesTo(before, op.overId) = Null

\* the index the End needs is not found: a list dropped on a card, or a card
\* dropped on its own list rather than on a card of it
IndexNotFound ==
  /\ op.overId # Null
  /\ \/ op.active.type = "list" /\ ~HasList(before, op.overId)
     \/ /\ op.active.type = "card"
        /\ HasCard(before, op.active.id)
        /\ op.overId = OwnerOf(before, op.active.id)

\* C22: a Hover or End whose active id or over id resolves to no list of the
\* current board (the active card or the over item was deleted during the
\* drag, or there is no over target), or whose index is not found, changes
\* nothing on the board; the End still returns the session to Idle.
C22_UnresolvedIsNoOp ==
  /\ (op.name = "hover" /\ Unresolved) => board = before
  /\ (op.name = "end" /\ (Unresolved \/ IndexNotFound)) =>
       /\ board = before
       /\ Idle
       /\ recentlyMovedToNewContainer = FALSE

\* the End of the drag of a card that was deleted during the drag, after a
\* Hover had moved it, over a card that is still on the board
C22_Witness ==
  /\ op.name = "end"
  /\ op.active.type = "card"
  /\ ResolvesTo(before, op.active.id) = Null
  /\ op.overId # Null
  /\ HasCard(before, op.overId)
  /\ op.wasMoved
  /\ board = before
  /\ Idle

\* the list, respectively the card in that list, a store call names is not
\* on the board the call is applied to
AbsentList == ~HasList(before, op.listId)
AbsentCard ==
  \/ ~HasList(before, op.listId)
  \/ Count(CardsOf(before, op.listId), op.cardId) = 0

\* C23: every id-addressed store operation whose id is absent leaves the
\* board value unchanged: deleteList, updateListTitle and addCard with an
\* unknown listId, deleteCard, updateCardTitle and addComment with an unknown
\* listId or cardId; and deleting the same list or card a second time gives
\* the board the first deletion gave.
C23_AbsentIdIsNoOp ==
  /\ (op.name \in {"deleteList", "updateListTitle", "addCard"} /\ AbsentList)
       => board = before
  /\ (op.name \in {"deleteCard", "updateCardTitle", "addComment"} /\ AbsentCard)
       => board = before
  /\ op.name = "deleteList" => deleteList(board, op.listId) = board
  /\ op.name = "deleteCard" => deleteCard(board, op.listId, op.cardId) = board

\* Scenario C: addComment names a list of the board and a card that is in
\* another list of it
C23_Witness ==
  /\ op.name = "addComment"
  /\ HasList(before, op.listId)
  /\ Len(CardsOf(before, op.listId)) > 0
  /\ Count(CardsOf(before, op.listId), op.cardId) = 0
  /\ HasCard(before, op.cardId)
  /\ board = before

\* the order of the lists, and the order of the cards of a list, by id
ListOrder(b) == Ids(b.lists)
CardOrder(b, listId) == Ids(CardsOf(b, listId))

\* every list of the earlier board is on the later one with its cards in the
\* same order, but for the list named
SameCardOrders(b, c, except) ==
  \A i \in 1..Len(b.lists) :
    b.lists[i].id # except =>
      /\ HasList(c, b.lists[i].id)
      /\ CardOrder(c, b.lists[i].id) = CardOrder(b, b.lists[i].id)

\* C24: the order of the sequences changes only through explicit move,
\* insert and delete: the update operations and addComment keep the order of
\* the lists and of the cards of every list; addList and addCard append at
\* the end; deleteList and deleteCard keep the order of what remains; a list
\* drag changes no list's card sequence and a card drag does not change the
\* order of the lists.
C24_OrderChangesOnlyByMoves ==
  /\ op.name \in {"updateBoardTitle", "updateListTitle", "updateCardTitle",
                  "addComment"} =>
       /\ ListOrder(board) = ListOrder(before)
       /\ SameCardOrders(before, board, Null)
  /\ op.name = "addList" =>
       /\ ListOrder(board) = Append(ListOrder(before), op.newId)
       /\ SameCardOrders(before, board, Null)
       /\ CardOrder(board, op.newId) = <<>>
  /\ op.name = "addCard" =>
       /\ ListOrder(board) = ListOrder(before)
       /\ SameCardOrders(before, board, op.listId)
       /\ CardOrder(board, op.listId) =
            Append(CardOrder(before, op.listId), op.newId)
  /\ op.name = "deleteList" =>
       /\ ListOrder(board) =
            RemoveAt(ListOrder(before), PlaceOf(before, op.listId))
       /\ SameCardOrders(before, board, op.listId)
  /\ op.name = "deleteCard" =>
       /\ ListOrder(board) = ListOrder(before)
       /\ SameCardOrders(before, board, op.listId)
       /\ CardOrder(board, op.listId) =
            RemoveAt(CardOrder(before, op.listId),
                     IndexIn(before, op.listId, op.cardId) + 1)
  /\ (op.name \in {"start", "hover", "end", "cancel"} /\ op.active.type = "list") =>
       /\ Len(board.lists) = Len(before.lists)
       /\ SameCardOrders(before, board, Null)
  /\ (op.name \in {"start", "hover", "end", "cancel"} /\ op.active.type = "card") =>
       ListOrder(board) = ListOrder(before)

\* a card is added to a list that holds two cards and is not the first list
C24_Witness ==
  /\ op.name = "addCard"
  /\ Len(CardsOf(before, op.listId)) = 2
  /\ PlaceOf(before, op.listId) > 1
  /\ CardOrder(board, op.listId)[3] = op.newId

\* the ids of the lists, cards and comments of a board
AllIds(b) ==
  {b.lists[i].id : i \in 1..Len(b.lists)} \cup
  UNION {{b.lists[i].cards[k].id : k \in 1..Len(b.lists[i].cards)} :
           i \in 1..Len(b.lists)} \cup
  UNION {UNION {{b.lists[i].cards[k].comments[j].id :
                   j \in 1..Len(b.lists[i].cards[k].comments)} :
                  k \in 1..Len(b.lists[i].cards)} : i \in 1..Len(b.lists)}

\* the ids an entity can have carried so far: those of the default board and
\* those made from the first n uuids
Issued(n) ==
  AllIds(DEFAULT_BOARD) \cup
  {generateId(prefix, k) : prefix \in {"list", "card", "comment"}, k \in 1..n}

\* C25: every addList, addCard and addComment that takes effect brings in an
\* id that was not on the board before the call and that no entity, deleted
\* ones and those of the default board included, has carried before: every
\* id on the board has been issued, and an id that appears on the board is
\* none of those issued before.
C25_AddedIdsAreFresh ==
  /\ [](AllIds(board) \subseteq Issued(uuids))
  /\ [][(AllIds(board') \ AllIds(board)) \cap Issued(uuids) = {}]_vars

\* a card is added after a card of the default board was deleted
C25_Witness ==
  /\ uuids = 1
  /\ HasCard(board, generateId("card", 1))
  /\ \E id \in CardIdArgs : ~HasCard(board, id)

\* C26: a store mutation produces a new board value and edits nothing of the
\* previous one in place: every array that existed before the call has the
\* content it had, so that a holder of the earlier board still reads the
\* earlier sequences of lists and cards; and the board the call returns is
\* the one the updater computes.
C26_PreviousBoardIsUntouched ==
  op.name \in {"moveList", "moveCard"} =>
    /\ \A a \in 1..Len(op.heapBefore) : op.heapAfter[a] = op.heapBefore[a]
    /\ Deref(op.heapAfter, op.prev) = before
    /\ board = IF op.name = "moveList"
               THEN moveList(before, op.fromIndex, op.toIndex)
               ELSE moveCard(before, op.sourceListId, op.destListId,
                             op.sourceIndex, op.destIndex)

\* a card has moved within its list, and the earlier board still shows the
\* list as it was
C26_Witness ==
  /\ MoveCardValid
  /\ op.sourceListId = op.destListId
  /\ board # before
  /\ op.next # op.prev
  /\ CardsOf(Deref(op.heapAfter, op.prev), op.sourceListId) =
       CardsOf(before, op.sourceListId)
  /\ CardsOf(Deref(op.heapAfter, op.next), op.sourceListId) #
       CardsOf(before, op.sourceListId)

\* the first collision of the observed call: pointerWithin's, or
\* rectIntersection's when pointerWithin reports none
FirstMatch ==
  IF op.args.pointer # <<>> THEN op.args.pointer[1]
  ELSE IF op.args.rects # <<>> THEN op.args.rects[1]
  ELSE Null

\* the cards of the list that closestCenter ranks, nearest first
RankedCards(listId) ==
  SelectSeq(op.args.centers,
            LAMBDA id : Count(CardsOf(board, listId), id) > 0)

\* the observed call is made during a card drag and its first collision is
\* a list of the board
ListMatched == Resolved("card") /\ FirstMatch # Null /\ HasList(board, FirstMatch)

\* C27 as stated: when the first match is a list that holds a card, the
\* target returned is the id of a card of that list, never the list's own
\* id; when the list is empty it is the list's own id.
C27_ListMatchGivesCard ==
  ListMatched =>
    IF Len(CardsOf(board, FirstMatch)) > 0
    THEN /\ Len(op.collisions) = 1
         /\ Count(CardsOf(board, FirstMatch), op.collisions[1]) = 1
         /\ op.collisions[1] # FirstMatch
    ELSE op.collisions = <<FirstMatch>>

\* C27: when the first match is a list, the target returned is the card of
\* that list that closestCenter ranks nearest, if it ranks any; it is the
\* list's own id when closestCenter ranks no card of the list, and when the
\* list is empty.
C27_ListMatchGivesNearestCard ==
  ListMatched =>
    IF RankedCards(FirstMatch) # <<>>
    THEN op.collisions = <<RankedCards(FirstMatch)[1]>>
    ELSE op.collisions = <<FirstMatch>>

\* the list itself is nearer than its nearest card, which is returned
C27_Witness ==
  /\ ListMatched
  /\ Len(CardsOf(board, FirstMatch)) = 2
  /\ Len(op.args.centers) = 2
  /\ op.args.centers[1] = FirstMatch
  /\ op.collisions = <<op.args.centers[2]>>
  /\ lastOverId = op.args.centers[2]

\* C28: a Hover has an effect only while a card is dragged: received while
\* the session is Idle, or while a list is dragged, it leaves the board
\* unchanged and does not set the just-switched-container flag, whatever the
\* over item is.
C28_HoverNeedsCardDrag ==
  (op.name = "idleHover" \/ (op.name = "hover" /\ op.active.type = "list")) =>
    /\ board = before
    /\ recentlyMovedToNewContainer = op.wasMoved
    /\ recentlyMovedToNewContainer = FALSE

\* a Hover for a card over a card of another list, with no drag in progress
C28_Witness ==
  /\ op.name = "idleHover"
  /\ op.active.type = "card"
  /\ op.overId # Null
  /\ HasCard(before, op.overId)
  /\ OwnerOf(before, op.overId) # OwnerOf(before, op.active.id)
  /\ board = before
  /\ Idle

\* C29: an End received while the session is Idle performs no moveList and
\* no moveCard: the board is unchanged.
C29_IdleEndIsNoOp ==
  op.name = "idleEnd" => board = before

\* the step is a move of the dragged card to another list during its drag
SessionMove ==
  /\ Dragging
  /\ activeType = "card"
  /\ activeId' = activeId
  /\ HasCard(board, activeId)
  /\ HasCard(board', activeId)
  /\ OwnerOf(board', activeId) # OwnerOf(board, activeId)

\* C30: the just-switched-container flag is true exactly when the current
\* drag session has applied a cross-container Hover move: it is false while
\* the session is Idle and during a list drag; it becomes true only by such
\* a move and every such move sets it; and once set it stays set, through
\* the calls of the collision detection and the later Hovers, until the
\* session's End or Cancel.
C30_FlagTracksSessionMove ==
  /\ [](~Dragging => recentlyMovedToNewContainer = FALSE)
  /\ [](activeType = "list" => recentlyMovedToNewContainer = FALSE)
  /\ [][(~recentlyMovedToNewContainer /\ recentlyMovedToNewContainer')
          => SessionMove]_vars
  /\ [][SessionMove => recentlyMovedToNewContainer']_vars
  /\ [][(recentlyMovedToNewContainer /\ ~recentlyMovedToNewContainer')
          => (Dragging /\ activeId' = Null)]_vars

\* a card drag that has switched container, after a call of the collision
\* detection that found no match and now remembers the active card
C30_Witness ==
  /\ Running
  /\ Dragging
  /\ activeType = "card"
  /\ recentlyMovedToNewContainer
  /\ lastOverId = activeId
  /\ OwnerOf(board, activeId) # OwnerOf(DEFAULT_BOARD, activeId)

\* C31: the previous target the strategy remembers does not survive a drag
\* session: the first call of the strategy in a card drag that finds no
\* geometric match returns no target, and not one chosen in an earlier
\* session.
C31_FirstNoMatchIsEmpty ==
  (op.name = "firstResolve" /\ op.active.type = "card" /\ NoMatch) =>
    op.collisions = <<>>

\* the observed Hover or End has issued a moveCard
IssuedMoveCard ==
  /\ op.name \in {"pendingHover", "pendingEnd"}
  /\ op.call.call = "moveCard"

\* the source list and source index of the call designate the card in b
Designates(b, c, cardId) ==
  /\ HasList(b, c.sourceListId)
  /\ c.sourceIndex >= 0
  /\ c.sourceIndex < Len(CardsOf(b, c.sourceListId))
  /\ CardsOf(b, c.sourceListId)[c.sourceIndex + 1].id = cardId

\* C32: every moveCard issued by Hover or End relocates the active card and
\* no other, however the handlers and the renders interleave: the source
\* list and source index the handler computed from the board it saw
\* designate the active card in the board the store applies the move to,
\* and no card other than the active one changes list.
C32_MoveCardMovesActiveOnly ==
  IssuedMoveCard =>
    /\ Designates(before, op.call, op.active.id)
    /\ \A i \in 1..Len(before.lists) :
         \A k \in 1..Len(before.lists[i].cards) :
           LET id == before.lists[i].cards[k].id
           IN  id # op.active.id =>
                 /\ HasCard(board, id)
                 /\ OwnerOf(board, id) = before.lists[i].id

====
